---- MODULE Spec2Model ----
(***************************************************************************)
(* cppli: a command-line argument parsing library.                         *)
(*                                                                         *)
(* The module models                                                       *)
(*   - the value conversion layer (ValueConverter<T>::from_string),        *)
(*   - the typed descriptors (TypedFlag<T>, TypedPositional<T>),           *)
(*   - Subcommand::parse_args / Subcommand::validate_requirements, one     *)
(*     action per iteration of the scanning loop, with an explicit call    *)
(*     stack for the recursion into child subcommands,                     *)
(*   - the string-based Parser::parse / Parser::validate_requirements.     *)
(*                                                                         *)
(* A token (std::string) is a sequence of one-character strings, so that   *)
(* starts_with, find, substr and from_chars are computed as the code       *)
(* computes them.  An optional is <<>> (nullopt) or <<v>>.                 *)
(***************************************************************************)
EXTENDS Integers, Sequences, FiniteSets, TLC

VARIABLES
    scopes,      \* Subcommand objects: name -> [flags, short_to_long, positionals, ...]
    args,        \* the argument vector handed to parse_args / parse
    stack,       \* activation records of Subcommand::parse_args, innermost last
    ret,         \* <<>> while the innermost activation runs, <<r>> once it has returned r
    pc,          \* position of the caller: "idle", "parsing", "returned", "done"
    result,      \* <<r>>: what the outermost parse_args returned
    outcome,     \* <<r>>: result of the parse followed by validate_requirements
    last,        \* what the last step of the scan did (observation only)
    vlog,        \* values the custom validators were invoked on (observation only)
    parser,      \* the string-based Parser object and the position of its scan
    tflag,       \* a stand-alone TypedFlag<T>
    tpos,        \* a stand-alone TypedPositional<T>
    tres,        \* result of the last call on tflag / tpos
    prior        \* <<>>, or <<s>>: the scopes as the parse before the present one left them

subVars == <<scopes, args, stack, ret, pc, result, outcome, last, vlog>>
descVars == <<tflag, tpos, tres>>
vars == <<scopes, args, stack, ret, pc, result, outcome, last, vlog, parser, tflag, tpos, tres,
          prior>>

----------------------------------------------------------------------------
(* Bounds of the model *)

MaxArgs == 3
MaxPositionals == 2
\* calls of set_value_from_string made on one descriptor
MaxSets == 2

----------------------------------------------------------------------------
(* Optionals and results *)

None == <<>>
Some(v) == <<v>>
HasValue(o) == o /= <<>>
ValueOf(o) == o[1]

\* Error(code, message), cppli_error.hpp; the message is kept as its parts
MkError(code, message) == [code |-> code, message |-> message]
\* Result<T>::ok(value), Result<void>::ok(), Result<T>::err(error)
Ok(v) == [ok |-> TRUE, value |-> v]
OkVoid == [ok |-> TRUE]
Err(e) == [ok |-> FALSE, error |-> e]

\* the factory helpers of Error
unknown_flag(flag_name) == MkError("UnknownFlag", <<"Unknown flag: ", flag_name>>)
missing_required_flag(flag_name) ==
    MkError("MissingRequiredFlag", <<"Required flag missing: --", flag_name>>)
missing_required_positional(pos_name) ==
    MkError("MissingRequiredPositional", <<"Required positional missing: ", pos_name>>)
too_many_positionals == MkError("TooManyPositionals", <<"Too many positional arguments">>)
missing_flag_value(flag_name) ==
    MkError("MissingFlagValue", <<"Missing value for flag: --", flag_name>>)
validation_failed(name, reason) ==
    MkError("ValidationFailed", <<"Validation failed for ", name, ": ", reason>>)

----------------------------------------------------------------------------
(* Strings *)

\* the characters that occur in the tokens of the model, in ASCII order
Alphabet == <<"-", "0", "1", "2", "3", "4", "5", "6", "7", "8", "9", "=",
              "a", "b", "c", "d", "e", "f", "g", "h", "i", "j", "k", "l", "m",
              "n", "o", "p", "q", "r", "s", "t", "u", "v", "w", "x", "y", "z">>

CharRank(c) == CHOOSE k \in 1..Len(Alphabet) : Alphabet[k] = c

\* std::string operator< (lexicographic), the order of std::map<std::string, ...>
RECURSIVE StrLess(_, _)
StrLess(a, b) ==
    IF b = <<>> THEN FALSE
    ELSE IF a = <<>> THEN TRUE
    ELSE IF a[1] = b[1] THEN StrLess(Tail(a), Tail(b))
    ELSE CharRank(a[1]) < CharRank(b[1])

\* std::string::starts_with
StartsWith(s, prefix) ==
    /\ Len(s) >= Len(prefix)
    /\ SubSeq(s, 1, Len(prefix)) = prefix

\* std::string::find(c): 0-based index of the first c, or -1 for npos
Find(s, c) ==
    IF \E k \in 1..Len(s) : s[k] = c
    THEN (CHOOSE k \in 1..Len(s) : s[k] = c /\ \A j \in 1..(k - 1) : s[j] /= c) - 1
    ELSE -1

\* std::string::substr(pos) and substr(pos, count), 0-based pos
Substr(s, pos) == SubSeq(s, pos + 1, Len(s))
SubstrN(s, pos, count) ==
    SubSeq(s, pos + 1, IF pos + count > Len(s) THEN Len(s) ELSE pos + count)

----------------------------------------------------------------------------
(* Value conversion layer: ValueConverter<T>::from_string *)

INT_MAX == 2147483647
INT_MIN == -INT_MAX - 1

Digits == <<"0", "1", "2", "3", "4", "5", "6", "7", "8", "9">>
IsDigit(c) == \E k \in 1..10 : Digits[k] = c
DigitVal(c) == (CHOOSE k \in 1..10 : Digits[k] = c) - 1

\* number of leading decimal digits of s
RECURSIVE DigitPrefixLen(_)
DigitPrefixLen(s) ==
    IF s /= <<>> /\ IsDigit(s[1]) THEN 1 + DigitPrefixLen(Tail(s)) ELSE 0

\* The digits ds accumulated onto nacc, the negated magnitude read so far;
\* <<>> when the magnitude leaves the range of int (down to INT_MIN).
RECURSIVE AccumulateDigits(_, _)
AccumulateDigits(ds, nacc) ==
    IF ds = <<>> THEN <<nacc>>
    ELSE LET d == DigitVal(ds[1]) IN
         IF nacc > -214748364 \/ (nacc = -214748364 /\ d <= 8)
         THEN AccumulateDigits(Tail(ds), nacc * 10 - d)
         ELSE <<>>

\* std::from_chars(first, last, int&): an optional minus sign, then the longest
\* run of decimal digits; what follows the digits is left unread.
\* ec is "ok", "invalid_argument" or "result_out_of_range".
FromCharsInt(str) ==
    LET neg == str /= <<>> /\ str[1] = "-"
        body == IF neg THEN Tail(str) ELSE str
        n == DigitPrefixLen(body)
        acc == AccumulateDigits(SubSeq(body, 1, n), 0)
    IN  IF n = 0 THEN [ec |-> "invalid_argument", value |-> 0, ptr |-> 0]
        ELSE IF acc = <<>> \/ (~neg /\ acc[1] = INT_MIN)
             THEN [ec |-> "result_out_of_range", value |-> 0,
                   ptr |-> n + (IF neg THEN 1 ELSE 0)]
        ELSE [ec |-> "ok", value |-> IF neg THEN acc[1] ELSE 0 - acc[1],
              ptr |-> n + (IF neg THEN 1 ELSE 0)]

\* ValueConverter<int>::from_string
IntFromString(str) ==
    LET r == FromCharsInt(str) IN
    IF r.ec = "ok" THEN Ok(r.value)
    ELSE IF r.ec = "invalid_argument"
         THEN Err(MkError("InvalidFlagValue", <<"Invalid integer format">>))
    ELSE IF r.ec = "result_out_of_range"
         THEN Err(MkError("InvalidFlagValue", <<"Integer out of range">>))
    ELSE Err(MkError("InvalidFlagValue", <<"Unknown conversion error">>))

s_true == <<"t", "r", "u", "e">>
s_false == <<"f", "a", "l", "s", "e">>
s_1 == <<"1">>
s_0 == <<"0">>
s_yes == <<"y", "e", "s">>
s_no == <<"n", "o">>
s_on == <<"o", "n">>
s_off == <<"o", "f", "f">>

\* Variant of BoolFromString: a token that is not one of the four true forms is false
BoolFromStringLenient(str) ==
    IF str = s_true \/ str = s_1 \/ str = s_yes \/ str = s_on THEN Ok(TRUE)
    ELSE Ok(FALSE)

\* ValueConverter<bool>::from_string
BoolFromString(str) ==
    IF str = s_true \/ str = s_1 \/ str = s_yes \/ str = s_on THEN Ok(TRUE)
    ELSE IF str = s_false \/ str = s_0 \/ str = s_no \/ str = s_off THEN Ok(FALSE)
    ELSE Err(MkError("InvalidFlagValue",
             <<"Invalid boolean value (expected: true/false, 1/0, yes/no, on/off)">>))

\* ValueConverter<std::string>::from_string
StringFromString(str) == Ok(str)

\* ValueConverter<T>::from_string for the value type T of a descriptor
FromString(T, str) ==
    IF T = "int" THEN IntFromString(str)
    ELSE IF T = "bool" THEN BoolFromString(str)
    ELSE StringFromString(str)

Types == {"string", "int", "bool"}

----------------------------------------------------------------------------
(* Typed descriptors: TypedFlag<T>, TypedPositional<T> *)

\* Validator<T>: a caller-supplied function.  "none" is an empty std::function;
\* "range" is the validator of the test suite (1 <= val <= 32).
Validators == {"none", "range"}

s_threads == <<"t", "h", "r", "e", "a", "d", "s">>

RunValidator(v, val) ==
    IF v = "range"
    THEN IF val >= 1 /\ val <= 32 THEN OkVoid
         ELSE Err(validation_failed(s_threads, "must be between 1 and 32"))
    ELSE OkVoid

\* TypedFlag<T>::TypedFlag(long_name, description)
NewTypedFlag(T, long_name) ==
    [type |-> T, long_name |-> long_name, short_name |-> <<>>, required |-> FALSE,
     value |-> None, default_value |-> None, choices |-> <<>>, validator |-> "none"]

set_short_name(f, name) == [f EXCEPT !.short_name = name]
set_required(f, req) == [f EXCEPT !.required = req]
\* Variant of set_default_value: the default is recorded but does not become the current value
set_default_value_default_only(f, val) == [f EXCEPT !.default_value = Some(val)]

set_default_value(f, val) == [f EXCEPT !.default_value = Some(val), !.value = Some(val)]
set_choices(f, opts) == [f EXCEPT !.choices = opts]
set_validator(f, fn) == [f EXCEPT !.validator = fn]

\* the loop of TypedFlag::validate over choices_
InChoices(f) == \E k \in 1..Len(f.choices) : ValueOf(f.value) = f.choices[k]

\* Variant of TypedFlag<T>::validate that runs validator_ before the choice test
FlagValidateValidatorFirst(f) ==
    IF ~HasValue(f.value) THEN [res |-> OkVoid, calls |-> <<>>]
    ELSE LET calls == IF f.validator /= "none"
                      THEN <<[name |-> f.long_name, value |-> ValueOf(f.value)]>>
                      ELSE <<>>
             vres == RunValidator(f.validator, ValueOf(f.value))
         IN  IF ~vres.ok THEN [res |-> vres, calls |-> calls]
             ELSE IF f.choices /= <<>> /\ ~InChoices(f)
             THEN [res |-> Err(validation_failed(f.long_name, "value not in allowed choices")),
                   calls |-> calls]
             ELSE [res |-> OkVoid, calls |-> calls]

\* TypedFlag<T>::validate: [res, calls], calls the values validator_ was invoked on
FlagValidate(f) ==
    IF ~HasValue(f.value) THEN [res |-> OkVoid, calls |-> <<>>]
    ELSE IF f.choices /= <<>> /\ ~InChoices(f)
         THEN [res |-> Err(validation_failed(f.long_name, "value not in allowed choices")),
               calls |-> <<>>]
    ELSE IF f.validator /= "none"
         THEN [res |-> RunValidator(f.validator, ValueOf(f.value)),
               calls |-> <<[name |-> f.long_name, value |-> ValueOf(f.value)]>>]
    ELSE [res |-> OkVoid, calls |-> <<>>]

\* Variant of TypedFlag<T>::set_value_from_string that puts the former value
\* back when the validation fails
FlagSetValueFromStringRollback(f, str) ==
    LET converted == FromString(f.type, str) IN
    IF ~converted.ok THEN [flag |-> f, res |-> Err(converted.error), calls |-> <<>>]
    ELSE LET g == [f EXCEPT !.value = Some(converted.value)]
             v == FlagValidate(g)
         IN  [flag |-> IF v.res.ok THEN g ELSE f, res |-> v.res, calls |-> v.calls]

\* Variant of TypedFlag<T>::set_value_from_string that leaves a value already
\* held in place
FlagSetValueFromStringKeepFirst(f, str) ==
    LET converted == FromString(f.type, str) IN
    IF ~converted.ok THEN [flag |-> f, res |-> Err(converted.error), calls |-> <<>>]
    ELSE LET g == IF HasValue(f.value) THEN f ELSE [f EXCEPT !.value = Some(converted.value)]
             v == FlagValidate(g)
         IN  [flag |-> g, res |-> v.res, calls |-> v.calls]

\* Variant of TypedFlag<T>::set_value_from_string that resets value_ when the
\* conversion fails
FlagSetValueFromStringReset(f, str) ==
    LET converted == FromString(f.type, str) IN
    IF ~converted.ok
    THEN [flag |-> [f EXCEPT !.value = None], res |-> Err(converted.error), calls |-> <<>>]
    ELSE LET g == [f EXCEPT !.value = Some(converted.value)]
             v == FlagValidate(g)
         IN  [flag |-> g, res |-> v.res, calls |-> v.calls]

\* Variant of set_value_from_string: a flag that has a default keeps its value
FlagSetValueFromStringKeepDefault(f, str) ==
    LET converted == FromString(f.type, str) IN
    IF ~converted.ok THEN [flag |-> f, res |-> Err(converted.error), calls |-> <<>>]
    ELSE LET g == IF HasValue(f.default_value) THEN f
                  ELSE [f EXCEPT !.value = Some(converted.value)]
             v == FlagValidate(g)
         IN  [flag |-> g, res |-> v.res, calls |-> v.calls]

\* TypedFlag<T>::set_value_from_string: [flag, res, calls]
FlagSetValueFromString(f, str) ==
    LET converted == FromString(f.type, str) IN
    IF ~converted.ok THEN [flag |-> f, res |-> Err(converted.error), calls |-> <<>>]
    ELSE LET g == [f EXCEPT !.value = Some(converted.value)]
             v == FlagValidate(g)
         IN  [flag |-> g, res |-> v.res, calls |-> v.calls]

\* TypedPositional<T>::TypedPositional(name, description, required)
NewTypedPositional(T, name, required) ==
    [type |-> T, name |-> name, required |-> required, value |-> None, validator |-> "none"]

\* TypedPositional<T>::set_validator
pos_set_validator(p, fn) == [p EXCEPT !.validator = fn]

\* TypedPositional<T>::set_value_from_string: [pos, res, calls]
PosSetValueFromString(p, str) ==
    LET converted == FromString(p.type, str) IN
    IF ~converted.ok THEN [pos |-> p, res |-> Err(converted.error), calls |-> <<>>]
    ELSE LET q == [p EXCEPT !.value = Some(converted.value)] IN
         IF q.validator /= "none"
         THEN [pos |-> q, res |-> RunValidator(q.validator, converted.value),
               calls |-> <<[name |-> q.name, value |-> converted.value]>>]
         ELSE [pos |-> q, res |-> OkVoid, calls |-> <<>>]

----------------------------------------------------------------------------
(* Subcommand: the registries of one command level *)

\* Subcommand::Subcommand(name, description, parent, parent_subcommand)
NewSubcommand(name) ==
    [name |-> name, flags |-> <<>>, short_to_long |-> <<>>, positionals |-> <<>>,
     subcommands |-> <<>>, selected_subcommand |-> None, parsed |-> FALSE,
     help_requested |-> FALSE, fallthrough |-> FALSE,
     callback |-> FALSE, callback_calls |-> 0]

\* m[k] = v of a std::map kept as a function
MapPut(m, k, v) == [x \in (DOMAIN m) \cup {k} |-> IF x = k THEN v ELSE m[x]]

\* Subcommand::add_flag<T>(long_name, description), then the fluent setters
add_flag(sc, f) == [sc EXCEPT !.flags = MapPut(sc.flags, f.long_name, f)]
\* Subcommand::add_positional<T>(name, description, required)
add_positional(sc, p) == [sc EXCEPT !.positionals = Append(sc.positionals, p)]
\* Subcommand::add_subcommand(name, description): subcommands_[name] owns the child,
\* kept here as the child's key in scopes
add_subcommand(sc, name, child) == [sc EXCEPT !.subcommands = MapPut(sc.subcommands, name, child)]
\* Subcommand::set_fallthrough
set_fallthrough(sc, allow) == [sc EXCEPT !.fallthrough = allow]
\* Subcommand::set_callback: callback_ holds a function; callback_calls counts
\* the times that function has run
set_callback(sc) == [sc EXCEPT !.callback = TRUE]
\* Subcommand::invoke_callback
invoke_callback(sc) ==
    IF sc.callback THEN [sc EXCEPT !.callback_calls = sc.callback_calls + 1] ELSE sc

s_help == <<"h", "e", "l", "p">>
s_h == <<"h">>

\* Subcommand::add_help_flag
add_help_flag(sc) == add_flag(sc, set_short_name(NewTypedFlag("bool", s_help), s_h))

\* the greatest key of a non-empty set of strings: the one a std::map visits last
StrMax(S) == CHOOSE x \in S : \A y \in S : y = x \/ StrLess(y, x)
\* the least key: the one a std::map visits first
StrMin(S) == CHOOSE x \in S : \A y \in S : y = x \/ StrLess(x, y)

\* Variant of RebuildShortToLong: the index is filled without being cleared
RebuildShortToLongNoClear(sc) ==
    LET shorts == {sc.flags[n].short_name : n \in DOMAIN sc.flags} \ {<<>>} IN
    [s \in shorts \cup DOMAIN sc.short_to_long |->
        IF s \in shorts THEN StrMax({n \in DOMAIN sc.flags : sc.flags[n].short_name = s})
        ELSE sc.short_to_long[s]]

\* the prologue of Subcommand::parse_args: short_to_long_ is cleared and filled
\* from flags_ in key order, a later flag overwriting an earlier one
RebuildShortToLong(sc) ==
    LET shorts == {sc.flags[n].short_name : n \in DOMAIN sc.flags} \ {<<>>} IN
    [s \in shorts |-> StrMax({n \in DOMAIN sc.flags : sc.flags[n].short_name = s})]

\* Variant of validate_requirements: the positionals are examined before the flags
ValidateRequirementsPositionalsFirst(sc) ==
    LET missingFlags == {n \in DOMAIN sc.flags :
                            sc.flags[n].required /\ ~HasValue(sc.flags[n].value)}
        missingPos == {k \in 1..Len(sc.positionals) :
                            sc.positionals[k].required /\ ~HasValue(sc.positionals[k].value)}
    IN  IF missingPos /= {}
        THEN Err(missing_required_positional(
                        sc.positionals[CHOOSE k \in missingPos : \A j \in missingPos : k <= j].name))
        ELSE IF missingFlags /= {} THEN Err(missing_required_flag(StrMin(missingFlags)))
        ELSE OkVoid

\* Subcommand::validate_requirements
ValidateRequirements(sc) ==
    LET missingFlags == {n \in DOMAIN sc.flags :
                            sc.flags[n].required /\ ~HasValue(sc.flags[n].value)}
        missingPos == {k \in 1..Len(sc.positionals) :
                            sc.positionals[k].required /\ ~HasValue(sc.positionals[k].value)}
    IN  IF missingFlags /= {} THEN Err(missing_required_flag(StrMin(missingFlags)))
        ELSE IF missingPos /= {}
             THEN Err(missing_required_positional(
                        sc.positionals[CHOOSE k \in missingPos : \A j \in missingPos : k <= j].name))
        ELSE OkVoid

\* Subcommand::has
Has(sc, flag_name) == flag_name \in DOMAIN sc.flags /\ HasValue(sc.flags[flag_name].value)

\* what a read through a TypedFlag<T>* that points to a TypedFlag<U>, U /= T,
\* can yield: the behaviour is undefined, the read finds no value, or a value
\* that is not the flag's, or the program stops
\* (Crash is no optional: the call does not return)
Garbage == "garbage"
Crash == <<"crash", "no result">>
MistypedReads == {None, Some(Garbage), Crash}

\* Subcommand::get<T>(flag_name): the set of results the call can have
Get(sc, T, flag_name) ==
    IF flag_name \notin DOMAIN sc.flags THEN {None}
    ELSE IF ~HasValue(sc.flags[flag_name].value) THEN {None}
    ELSE IF sc.flags[flag_name].type /= T THEN MistypedReads
    ELSE {sc.flags[flag_name].value}

----------------------------------------------------------------------------
(* Subcommand::parse_args: classification of the current token *)

s_dashdash == <<"-", "-">>
s_dash == <<"-">>

Top == stack[Len(stack)]
Cur == scopes[Top.scope]
CurArg == args[Top.i + 1]

\* line 116: arg == "--"
IsDoubleDash(arg) == arg = s_dashdash

\* lines 122-124: the token names a child subcommand
MatchesSubcommand(sc, after_double_dash, arg) ==
    /\ ~after_double_dash
    /\ arg /= <<>>
    /\ arg[1] /= "-"
    /\ arg \in DOMAIN sc.subcommands

\* Variant of IsPositionalToken: an empty token is left to the flag branch
IsPositionalTokenNonEmpty(after_double_dash, arg) ==
    IF after_double_dash THEN TRUE
    ELSE IF arg = <<>> THEN FALSE
    ELSE arg[1] /= "-"

\* line 142: the token is a positional
IsPositionalToken(after_double_dash, arg) ==
    IF after_double_dash THEN TRUE
    ELSE IF arg = <<>> THEN TRUE
    ELSE arg[1] /= "-"

\* Variant of IsBooleanLiteral: only true, false, 1 and 0 are taken
IsBooleanLiteralShort(next_arg) ==
    \/ next_arg = s_true \/ next_arg = s_false \/ next_arg = s_1 \/ next_arg = s_0

\* lines 204-205: the tokens a boolean flag takes as its value
IsBooleanLiteral(next_arg) ==
    \/ next_arg = s_true \/ next_arg = s_false \/ next_arg = s_1 \/ next_arg = s_0
    \/ next_arg = s_yes \/ next_arg = s_no \/ next_arg = s_on \/ next_arg = s_off

\* Variant of the lookahead: a boolean flag takes any following token that is not flag-shaped
ConsumesNextUnconditional(has_value, is_boolean_flag, a, i) ==
    /\ ~has_value
    /\ i + 1 < Len(a)
    /\ ~StartsWith(a[i + 2], s_dash)

\* Variant of the lookahead: the following token is taken even when it starts with "-"
ConsumesNextFlagShaped(has_value, is_boolean_flag, a, i) ==
    /\ ~has_value
    /\ i + 1 < Len(a)
    /\ (~is_boolean_flag \/ IsBooleanLiteral(a[i + 2]))

\* lines 197-210: does the flag take the following token as its value
ConsumesNext(has_value, is_boolean_flag, a, i) ==
    /\ ~has_value
    /\ i + 1 < Len(a)
    /\ ~StartsWith(a[i + 2], s_dash)
    /\ (~is_boolean_flag \/ IsBooleanLiteral(a[i + 2]))

\* Variant of FlagToken: a long token is split at its last "="
FlagTokenLastEq(sc, arg) ==
    IF StartsWith(arg, s_dashdash)
    THEN LET eq_pos == IF \E k \in 1..Len(arg) : arg[k] = "="
                       THEN (CHOOSE k \in 1..Len(arg) :
                                arg[k] = "=" /\ \A j \in (k + 1)..Len(arg) : arg[j] /= "=") - 1
                       ELSE -1
         IN
         IF eq_pos /= -1
         THEN [known |-> TRUE, flag_name |-> SubstrN(arg, 2, eq_pos - 2),
               flag_value |-> Substr(arg, eq_pos + 1), has_value |-> TRUE]
         ELSE [known |-> TRUE, flag_name |-> Substr(arg, 2),
               flag_value |-> <<>>, has_value |-> FALSE]
    ELSE LET short_name == Substr(arg, 1) IN
         IF short_name \in DOMAIN sc.short_to_long
         THEN [known |-> TRUE, flag_name |-> sc.short_to_long[short_name],
               flag_value |-> <<>>, has_value |-> FALSE]
         ELSE [known |-> FALSE, flag_name |-> <<>>, flag_value |-> <<>>, has_value |-> FALSE]

\* lines 156-181: the flag name and inline value of a token starting with "-";
\* known is FALSE when a short name is not in short_to_long_
FlagToken(sc, arg) ==
    IF StartsWith(arg, s_dashdash)
    THEN LET eq_pos == Find(arg, "=") IN
         IF eq_pos /= -1
         THEN [known |-> TRUE, flag_name |-> SubstrN(arg, 2, eq_pos - 2),
               flag_value |-> Substr(arg, eq_pos + 1), has_value |-> TRUE]
         ELSE [known |-> TRUE, flag_name |-> Substr(arg, 2),
               flag_value |-> <<>>, has_value |-> FALSE]
    ELSE LET short_name == Substr(arg, 1) IN
         IF short_name \in DOMAIN sc.short_to_long
         THEN [known |-> TRUE, flag_name |-> sc.short_to_long[short_name],
               flag_value |-> <<>>, has_value |-> FALSE]
         ELSE [known |-> FALSE, flag_name |-> <<>>, flag_value |-> <<>>, has_value |-> FALSE]

\* Variant of UnknownFlagResult: a fallthrough scope returns the index after the token
UnknownFlagResultSkip(sc, arg, i) ==
    IF sc.fallthrough THEN Ok(i + 1) ELSE Err(unknown_flag(arg))

\* lines 175-179 and 188-193: a flag this scope does not know
UnknownFlagResult(sc, arg, i) ==
    IF sc.fallthrough THEN Ok(i) ELSE Err(unknown_flag(arg))

\* lines 156-226, one flag token: [sc, ret, i, name, consumed, calls];
\* ret is <<>> when the loop goes on with index i
FlagOutcome(sc, a, i) ==
    LET arg == a[i + 1]
        tok == FlagToken(sc, arg)
        sc1 == IF tok.flag_name = s_help THEN [sc EXCEPT !.help_requested = TRUE] ELSE sc
    IN  IF ~tok.known
        THEN [sc |-> sc, ret |-> Some(UnknownFlagResult(sc, arg, i)), i |-> i,
              name |-> <<>>, found |-> FALSE, consumed |-> FALSE, calls |-> <<>>]
        ELSE IF tok.flag_name \notin DOMAIN sc.flags
        THEN [sc |-> sc1, ret |-> Some(UnknownFlagResult(sc, arg, i)), i |-> i,
              name |-> tok.flag_name, found |-> FALSE, consumed |-> FALSE, calls |-> <<>>]
        ELSE
        LET flag == sc.flags[tok.flag_name]
            is_boolean_flag == flag.type = "bool"
            consumed == ConsumesNext(tok.has_value, is_boolean_flag, a, i)
            i1 == IF consumed THEN i + 1 ELSE i
            has_value == tok.has_value \/ consumed \/ is_boolean_flag
            flag_value == IF tok.has_value THEN tok.flag_value
                          ELSE IF consumed THEN a[i + 2]
                          ELSE s_true
            set == FlagSetValueFromString(flag, flag_value)
            sc2 == [sc1 EXCEPT !.flags[tok.flag_name] = set.flag]
        IN  IF ~has_value
            THEN [sc |-> sc1, ret |-> Some(Err(missing_flag_value(tok.flag_name))), i |-> i1,
                  name |-> tok.flag_name, found |-> TRUE, consumed |-> consumed, calls |-> <<>>]
            ELSE IF ~set.res.ok
            THEN [sc |-> sc2, ret |-> Some(Err(set.res.error)), i |-> i1,
                  name |-> tok.flag_name, found |-> TRUE, consumed |-> consumed,
                  calls |-> set.calls]
            ELSE [sc |-> sc2, ret |-> None, i |-> i1 + 1,
                  name |-> tok.flag_name, found |-> TRUE, consumed |-> consumed,
                  calls |-> set.calls]

\* Variant of PositionalOutcome: the slots are filled from the last one down
PositionalOutcomeFromLast(sc, arg, i, pos_index) ==
    IF pos_index >= Len(sc.positionals)
    THEN [sc |-> sc, ret |-> Some(Ok(i)), i |-> i, pos_index |-> pos_index, calls |-> <<>>]
    ELSE LET slot == Len(sc.positionals) - pos_index
             set == PosSetValueFromString(sc.positionals[slot], arg)
             sc1 == [sc EXCEPT !.positionals[slot] = set.pos]
         IN  IF ~set.res.ok
             THEN [sc |-> sc1, ret |-> Some(Err(set.res.error)), i |-> i,
                   pos_index |-> pos_index, calls |-> set.calls]
             ELSE [sc |-> sc1, ret |-> None, i |-> i + 1,
                   pos_index |-> pos_index + 1, calls |-> set.calls]

\* lines 142-154, one positional token: [sc, ret, i, pos_index, calls]
PositionalOutcome(sc, arg, i, pos_index) ==
    IF pos_index >= Len(sc.positionals)
    THEN [sc |-> sc, ret |-> Some(Ok(i)), i |-> i, pos_index |-> pos_index, calls |-> <<>>]
    ELSE LET set == PosSetValueFromString(sc.positionals[pos_index + 1], arg)
             sc1 == [sc EXCEPT !.positionals[pos_index + 1] = set.pos]
         IN  IF ~set.res.ok
             THEN [sc |-> sc1, ret |-> Some(Err(set.res.error)), i |-> i,
                   pos_index |-> pos_index, calls |-> set.calls]
             ELSE [sc |-> sc1, ret |-> None, i |-> i + 1,
                   pos_index |-> pos_index + 1, calls |-> set.calls]

----------------------------------------------------------------------------
(* The schema and the argument lists of the model *)

s_vb == <<"v", "b">>
s_v == <<"v">>
s_num == <<"n", "u", "m">>
s_run == <<"r", "u", "n">>
s_p1 == <<"p", "1">>
s_p2 == <<"p", "2">>
s_px == <<"p", "x">>

t_v == <<"-", "v">>
t_num == <<"-", "-", "n", "u", "m">>
t_x == <<"-", "x">>
t_zz == <<"-", "-", "z", "z">>
t_f == <<"f">>
t_7 == <<"7">>
t_empty == <<>>

Tokens == {t_v, t_num, s_dashdash, t_f, s_no, t_7, s_run, t_x, t_zz, t_empty}

\* the sequences over S of length at most n
RECURSIVE SeqsUpTo(_, _)
SeqsUpTo(S, n) ==
    IF n = 0 THEN {<<>>}
    ELSE LET shorter == SeqsUpTo(S, n - 1) IN
         shorter \cup {Append(q, x) : q \in {r \in shorter : Len(r) = n - 1}, x \in S}

ArgLists == SeqsUpTo(Tokens, MaxArgs)

\* the k-th positional the root declares
PositionalDecl(k, p1_required) ==
    IF k = 1 THEN NewTypedPositional("string", s_p1, p1_required)
    ELSE IF k = 2 THEN NewTypedPositional("int", s_p2, FALSE)
    ELSE NewTypedPositional("string", s_px, FALSE)

RECURSIVE AddPositionals(_, _, _)
AddPositionals(sc, n, p1_required) ==
    IF n = 0 THEN sc
    ELSE add_positional(AddPositionals(sc, n - 1, p1_required), PositionalDecl(n, p1_required))

\* root: --vb/-v (bool), --num (int), n positionals, the subcommand run
RootSchema(num_required, num_default, n, p1_required) ==
    LET vb == set_short_name(NewTypedFlag("bool", s_vb), s_v)
        num0 == set_required(NewTypedFlag("int", s_num), num_required)
        num == IF num_default THEN set_default_value(num0, 4) ELSE num0
    IN  add_subcommand(
            AddPositionals(add_flag(add_flag(NewSubcommand("root"), vb), num), n, p1_required),
            s_run, "run")

\* run: --num (int, choices 7 and 40, validator), one optional positional
RunSchema(fallthrough) ==
    LET num == set_validator(set_choices(NewTypedFlag("int", s_num), <<7, 40>>), "range")
    IN  set_fallthrough(
            add_positional(add_flag(NewSubcommand("run"), num),
                           NewTypedPositional("string", s_p1, FALSE)),
            fallthrough)

ScopeIds == {"root", "run"}

\* what one step did: the kind of step, the scope and token index it looked at,
\* after_double_dash as the step found it, the flag name it resolved, whether it
\* took the following token as the flag's value, the positional slot it filled
NoEvent == [kind |-> "none", scope |-> "root", index |-> 0, after |-> FALSE,
            name |-> <<>>, consumed |-> FALSE, slot |-> -1]

ParserIdle == [pc |-> "unused"]
DescIdle == <<>>

InitSchemas ==
    \E num_required \in BOOLEAN, num_default \in BOOLEAN, n \in 0..MaxPositionals,
       p1_required \in BOOLEAN, fallthrough \in BOOLEAN :
        /\ (n = 0 => p1_required)
        /\ scopes = [id \in ScopeIds |->
                        IF id = "root" THEN RootSchema(num_required, num_default, n, p1_required)
                        ELSE RunSchema(fallthrough)]

Init ==
    /\ InitSchemas
    /\ args \in ArgLists
    /\ stack = <<>>
    /\ ret = None
    /\ pc = "idle"
    /\ result = None
    /\ outcome = None
    /\ last = NoEvent
    /\ vlog = <<>>
    /\ parser = ParserIdle
    /\ tflag = DescIdle
    /\ tpos = DescIdle
    /\ tres = None
    /\ prior = None

----------------------------------------------------------------------------
(* Subcommand::parse_args, one action per iteration of the loop *)

\* Variant of Running: the loop goes on after an activation has produced its result
RunningPastResult == pc = "parsing" /\ stack /= <<>>

\* the loop of the innermost activation is running: nothing has been returned yet
Running == pc = "parsing" /\ stack /= <<>> /\ ret = None
HasArg == Top.i < Len(args)

NewFrame(scope, start_index) ==
    [scope |-> scope, i |-> start_index, pos_index |-> 0, after_double_dash |-> FALSE]

\* the caller invokes parse_args(args, 0) on the root; lines 100-111
ParseArgsCall ==
    /\ pc = "idle"
    /\ scopes' = [scopes EXCEPT !["root"].short_to_long = RebuildShortToLong(scopes["root"])]
    /\ stack' = <<NewFrame("root", 0)>>
    /\ pc' = "parsing"
    /\ last' = NoEvent
    /\ UNCHANGED <<args, ret, result, outcome, vlog, parser, tflag, tpos, tres, prior>>

\* Variant of DoubleDashStep: the "--" token is noted but the index is not advanced
DoubleDashStepNoAdvance ==
    /\ Running /\ HasArg
    /\ IsDoubleDash(CurArg)
    /\ ~Top.after_double_dash
    /\ stack' = [stack EXCEPT ![Len(stack)].after_double_dash = TRUE]
    /\ last' = [kind |-> "double_dash", scope |-> Top.scope, index |-> Top.i,
                after |-> Top.after_double_dash,
                name |-> <<>>, consumed |-> FALSE, slot |-> -1]
    /\ UNCHANGED <<scopes, args, ret, pc, result, outcome, vlog, parser, tflag, tpos, tres, prior>>

\* lines 116-120
DoubleDashStep ==
    /\ Running /\ HasArg
    /\ IsDoubleDash(CurArg)
    /\ stack' = [stack EXCEPT ![Len(stack)].after_double_dash = TRUE,
                              ![Len(stack)].i = Top.i + 1]
    /\ last' = [kind |-> "double_dash", scope |-> Top.scope, index |-> Top.i,
                after |-> Top.after_double_dash,
                name |-> <<>>, consumed |-> FALSE, slot |-> -1]
    /\ UNCHANGED <<scopes, args, ret, pc, result, outcome, vlog, parser, tflag, tpos, tres, prior>>

\* lines 122-128 and, in the child, lines 100-111
SubcommandStep ==
    /\ Running /\ HasArg
    /\ ~IsDoubleDash(CurArg)
    /\ MatchesSubcommand(Cur, Top.after_double_dash, CurArg)
    /\ LET child == Cur.subcommands[CurArg] IN
       /\ scopes' = [scopes EXCEPT ![Top.scope].selected_subcommand = Some(CurArg),
                                   ![child].short_to_long = RebuildShortToLong(scopes[child])]
       /\ stack' = Append(stack, NewFrame(child, Top.i + 1))
    /\ last' = [kind |-> "subcommand", scope |-> Top.scope, index |-> Top.i,
                after |-> Top.after_double_dash,
                name |-> CurArg, consumed |-> FALSE, slot |-> -1]
    /\ UNCHANGED <<args, ret, pc, result, outcome, vlog, parser, tflag, tpos, tres, prior>>

\* lines 142-154
PositionalStep ==
    /\ Running /\ HasArg
    /\ ~IsDoubleDash(CurArg)
    /\ ~MatchesSubcommand(Cur, Top.after_double_dash, CurArg)
    /\ IsPositionalToken(Top.after_double_dash, CurArg)
    /\ \E o \in {PositionalOutcome(Cur, CurArg, Top.i, Top.pos_index)} :
       /\ scopes' = [scopes EXCEPT ![Top.scope] = o.sc]
       /\ stack' = [stack EXCEPT ![Len(stack)].i = o.i, ![Len(stack)].pos_index = o.pos_index]
       /\ ret' = o.ret
       /\ vlog' = vlog \o o.calls
       /\ last' = [kind |-> "positional", scope |-> Top.scope, index |-> Top.i,
                after |-> Top.after_double_dash,
                   name |-> <<>>, consumed |-> FALSE,
                   slot |-> IF Top.pos_index < Len(Cur.positionals) THEN Top.pos_index ELSE -1]
    /\ UNCHANGED <<args, pc, result, outcome, parser, tflag, tpos, tres, prior>>

\* lines 156-226
FlagStep ==
    /\ Running /\ HasArg
    /\ ~IsDoubleDash(CurArg)
    /\ ~MatchesSubcommand(Cur, Top.after_double_dash, CurArg)
    /\ ~IsPositionalToken(Top.after_double_dash, CurArg)
    /\ \E o \in {FlagOutcome(Cur, args, Top.i)} :
       /\ scopes' = [scopes EXCEPT ![Top.scope] = o.sc]
       /\ stack' = [stack EXCEPT ![Len(stack)].i = o.i]
       /\ ret' = o.ret
       /\ vlog' = vlog \o o.calls
       /\ last' = [kind |-> IF o.found THEN "flag" ELSE "unknown_flag", scope |-> Top.scope,
                   index |-> Top.i, after |-> Top.after_double_dash, name |-> o.name,
                   consumed |-> o.consumed, slot |-> -1]
    /\ UNCHANGED <<args, pc, result, outcome, parser, tflag, tpos, tres, prior>>

\* lines 113 and 229: the loop ends
LoopExit ==
    /\ Running /\ ~HasArg
    /\ ret' = Some(Ok(Top.i))
    /\ last' = [kind |-> "end", scope |-> Top.scope, index |-> Top.i,
                after |-> Top.after_double_dash,
                name |-> <<>>, consumed |-> FALSE, slot |-> -1]
    /\ UNCHANGED <<scopes, args, stack, pc, result, outcome, vlog, parser, tflag, tpos, tres, prior>>

\* Variant of SubcommandReturn: the child is marked parsed whatever it returned
SubcommandReturnAlwaysParsed ==
    /\ pc = "parsing" /\ ret /= None /\ Len(stack) >= 2
    /\ LET r == ValueOf(ret)
           child == Top.scope
           parent == stack[Len(stack) - 1].scope
       IN  /\ stack' = SubSeq(stack, 1, Len(stack) - 1)
           /\ IF ~r.ok
              THEN /\ ret' = Some(Err(r.error))
                   /\ scopes' = [scopes EXCEPT ![child].parsed = TRUE]
              ELSE /\ ret' = Some(Ok(r.value))
                   /\ scopes' = [scopes EXCEPT
                                   ![child].parsed = TRUE,
                                   ![parent].help_requested =
                                        scopes[parent].help_requested
                                        \/ scopes[child].help_requested]
           /\ last' = [kind |-> "return", scope |-> parent,
                       index |-> stack[Len(stack) - 1].i,
                       after |-> stack[Len(stack) - 1].after_double_dash,
                       name |-> scopes[child].name, consumed |-> FALSE, slot |-> -1]
    /\ UNCHANGED <<args, pc, result, outcome, vlog, parser, tflag, tpos, tres, prior>>

\* Variant of SubcommandReturn: the parent does not take over help_requested
SubcommandReturnNoHelp ==
    /\ pc = "parsing" /\ ret /= None /\ Len(stack) >= 2
    /\ LET r == ValueOf(ret)
           child == Top.scope
           parent == stack[Len(stack) - 1].scope
       IN  /\ stack' = SubSeq(stack, 1, Len(stack) - 1)
           /\ IF ~r.ok
              THEN /\ ret' = Some(Err(r.error))
                   /\ scopes' = scopes
              ELSE /\ ret' = Some(Ok(r.value))
                   /\ scopes' = [scopes EXCEPT ![child].parsed = TRUE]
           /\ last' = [kind |-> "return", scope |-> parent,
                       index |-> stack[Len(stack) - 1].i,
                       after |-> stack[Len(stack) - 1].after_double_dash,
                       name |-> scopes[child].name, consumed |-> FALSE, slot |-> -1]
    /\ UNCHANGED <<args, pc, result, outcome, vlog, parser, tflag, tpos, tres, prior>>

\* Variant of SubcommandReturn: after a successful child the parent goes on
\* scanning at the index the child returned
SubcommandReturnResume ==
    /\ pc = "parsing" /\ ret /= None /\ Len(stack) >= 2
    /\ LET r == ValueOf(ret)
           child == Top.scope
           parent == stack[Len(stack) - 1].scope
       IN  /\ IF ~r.ok
              THEN /\ ret' = Some(Err(r.error))
                   /\ scopes' = scopes
                   /\ stack' = SubSeq(stack, 1, Len(stack) - 1)
              ELSE /\ ret' = None
                   /\ scopes' = [scopes EXCEPT
                                   ![child].parsed = TRUE,
                                   ![parent].help_requested =
                                        scopes[parent].help_requested
                                        \/ scopes[child].help_requested]
                   /\ stack' = [SubSeq(stack, 1, Len(stack) - 1) EXCEPT
                                   ![Len(stack) - 1].i = r.value]
           /\ last' = [kind |-> "return", scope |-> parent,
                       index |-> stack[Len(stack) - 1].i,
                       after |-> stack[Len(stack) - 1].after_double_dash,
                       name |-> scopes[child].name, consumed |-> FALSE, slot |-> -1]
    /\ UNCHANGED <<args, pc, result, outcome, vlog, parser, tflag, tpos, tres, prior>>

\* lines 128-138: the child has returned to the parent's activation
SubcommandReturn ==
    /\ pc = "parsing" /\ ret /= None /\ Len(stack) >= 2
    /\ LET r == ValueOf(ret)
           child == Top.scope
           parent == stack[Len(stack) - 1].scope
       IN  /\ stack' = SubSeq(stack, 1, Len(stack) - 1)
           /\ IF ~r.ok
              THEN /\ ret' = Some(Err(r.error))
                   /\ scopes' = scopes
              ELSE /\ ret' = Some(Ok(r.value))
                   /\ scopes' = [scopes EXCEPT
                                   ![child].parsed = TRUE,
                                   ![parent].help_requested =
                                        scopes[parent].help_requested
                                        \/ scopes[child].help_requested]
           /\ last' = [kind |-> "return", scope |-> parent,
                       index |-> stack[Len(stack) - 1].i,
                       after |-> stack[Len(stack) - 1].after_double_dash,
                       name |-> scopes[child].name, consumed |-> FALSE, slot |-> -1]
    /\ UNCHANGED <<args, pc, result, outcome, vlog, parser, tflag, tpos, tres, prior>>

\* the outermost parse_args returns to its caller
ParseArgsReturn ==
    /\ pc = "parsing" /\ ret /= None /\ Len(stack) = 1
    /\ result' = ret
    /\ ret' = None
    /\ stack' = <<>>
    /\ pc' = "returned"
    /\ UNCHANGED <<scopes, args, outcome, last, vlog, parser, tflag, tpos, tres, prior>>

\* the caller runs validate_requirements on the root after a successful parse
ValidateStep ==
    /\ pc = "returned"
    /\ outcome' = Some(IF ValueOf(result).ok THEN ValidateRequirements(scopes["root"])
                       ELSE Err(ValueOf(result).error))
    /\ pc' = "done"
    /\ UNCHANGED <<scopes, args, stack, ret, result, last, vlog, parser, tflag, tpos, tres, prior>>

Next ==
    \/ ParseArgsCall
    \/ DoubleDashStep
    \/ SubcommandStep
    \/ PositionalStep
    \/ FlagStep
    \/ LoopExit
    \/ SubcommandReturn
    \/ ParseArgsReturn
    \/ ValidateStep

Spec == Init /\ [][Next]_vars

----------------------------------------------------------------------------
(* A command tree: the dispatcher "app" owns the subcommand run, which owns the
   subcommand now.  The dispatcher follows the parse algorithm of the design
   (its source is not part of the repository sources); run and now are
   Subcommand objects and are parsed by Subcommand::parse_args. *)

s_now == <<"n", "o", "w">>
t_help == <<"-", "-", "h", "e", "l", "p">>

TreeTokens == {s_run, s_now, t_help, t_num, t_7, t_v, s_dashdash}
TreeArgLists == SeqsUpTo(TreeTokens, MaxArgs)

\* app: --vb/-v (bool), --help/-h, --num (int), one optional positional, run
AppSchema(num_required) ==
    LET vb == set_short_name(NewTypedFlag("bool", s_vb), s_v)
        num == set_required(NewTypedFlag("int", s_num), num_required)
    IN  add_subcommand(
            add_positional(add_flag(add_flag(add_help_flag(NewSubcommand("app")), vb), num),
                           NewTypedPositional("string", s_p1, FALSE)),
            s_run, "run")

\* run: --help/-h, --num (int), a callback, the subcommand now
TreeRunSchema(num_required) ==
    LET num == set_required(NewTypedFlag("int", s_num), num_required)
    IN  add_subcommand(set_callback(add_flag(add_help_flag(NewSubcommand("run")), num)),
                       s_now, "now")

\* now: --num (int), a callback, with or without --help/-h
NowSchema(num_required, with_help, fallthrough) ==
    LET num == set_required(NewTypedFlag("int", s_num), num_required)
        sc == set_fallthrough(set_callback(add_flag(NewSubcommand("now"), num)), fallthrough)
    IN  IF with_help THEN add_help_flag(sc) ELSE sc

TreeScopeIds == {"app", "run", "now"}

InitTree ==
    /\ \E app_required \in BOOLEAN, run_required \in BOOLEAN, now_required \in BOOLEAN,
          with_help \in BOOLEAN, fallthrough \in BOOLEAN :
          scopes = [id \in TreeScopeIds |->
                      IF id = "app" THEN AppSchema(app_required)
                      ELSE IF id = "run" THEN TreeRunSchema(run_required)
                      ELSE NowSchema(now_required, with_help, fallthrough)]
    /\ args \in TreeArgLists
    /\ stack = <<>>
    /\ ret = None
    /\ pc = "idle"
    /\ result = None
    /\ outcome = None
    /\ last = NoEvent
    /\ vlog = <<>>
    /\ parser = ParserIdle
    /\ tflag = DescIdle
    /\ tpos = DescIdle
    /\ tres = None
    /\ prior = None

\* the activation on top of the stack is the dispatcher's
AtDispatcher == Running /\ Len(stack) = 1 /\ Top.scope = "app"
\* the activation on top of the stack is a Subcommand's
AtSubcommand == Running /\ Top.scope /= "app"

DispatchEvent(kind, name, consumed, slot) ==
    [kind |-> kind, scope |-> "app", index |-> Top.i, after |-> Top.after_double_dash,
     name |-> name, consumed |-> consumed, slot |-> slot]

\* the dispatcher's parse fails: the error is its terminal result
DispatchFail(e) ==
    /\ outcome' = Some(Err(e))
    /\ pc' = "done"
    /\ stack' = <<>>

\* parse(args) is called on the dispatcher: the short-name index is rebuilt
DispatchCall ==
    /\ pc = "idle"
    /\ scopes' = [scopes EXCEPT !["app"].short_to_long = RebuildShortToLong(scopes["app"])]
    /\ stack' = <<NewFrame("app", 0)>>
    /\ pc' = "parsing"
    /\ last' = NoEvent
    /\ UNCHANGED <<args, ret, result, outcome, vlog, parser, tflag, tpos, tres, prior>>

\* classification step 1, in NORMAL state: the token is `--`
DispatchDoubleDash ==
    /\ AtDispatcher /\ HasArg
    /\ ~Top.after_double_dash /\ IsDoubleDash(CurArg)
    /\ stack' = [stack EXCEPT ![1].after_double_dash = TRUE, ![1].i = Top.i + 1]
    /\ last' = DispatchEvent("double_dash", <<>>, FALSE, -1)
    /\ UNCHANGED <<scopes, args, ret, pc, result, outcome, vlog, parser, tflag, tpos, tres, prior>>

\* the token is a positional of the dispatcher: every token in AFTER_DOUBLE_DASH
\* state, and in NORMAL state a non-empty token not starting with `-`
DispatchIsPositional ==
    IF Top.after_double_dash THEN TRUE
    ELSE IF CurArg = <<>> THEN FALSE
    ELSE CurArg[1] /= "-" /\ CurArg \notin DOMAIN Cur.subcommands

\* classification step 2: the token names a subcommand; the child's parse
\* starts at the next index
DispatchSubcommand ==
    /\ AtDispatcher /\ HasArg
    /\ MatchesSubcommand(Cur, Top.after_double_dash, CurArg)
    /\ LET child == Cur.subcommands[CurArg] IN
       /\ scopes' = [scopes EXCEPT !["app"].selected_subcommand = Some(CurArg),
                                   ![child].short_to_long = RebuildShortToLong(scopes[child])]
       /\ stack' = Append(stack, NewFrame(child, Top.i + 1))
    /\ last' = DispatchEvent("subcommand", CurArg, FALSE, -1)
    /\ UNCHANGED <<args, ret, pc, result, outcome, vlog, parser, tflag, tpos, tres, prior>>

\* classification step 2: the next positional in order, TooManyPositionals if
\* no slot remains
DispatchPositional ==
    /\ AtDispatcher /\ HasArg
    /\ DispatchIsPositional
    /\ IF Top.pos_index >= Len(Cur.positionals)
       THEN /\ DispatchFail(too_many_positionals)
            /\ UNCHANGED <<scopes, vlog>>
       ELSE \E set \in {PosSetValueFromString(Cur.positionals[Top.pos_index + 1], CurArg)} :
            /\ scopes' = [scopes EXCEPT !["app"].positionals[Top.pos_index + 1] = set.pos]
            /\ vlog' = vlog \o set.calls
            /\ IF set.res.ok
               THEN /\ stack' = [stack EXCEPT ![1].i = Top.i + 1,
                                              ![1].pos_index = Top.pos_index + 1]
                    /\ UNCHANGED <<outcome, pc>>
               ELSE DispatchFail(set.res.error)
    /\ last' = DispatchEvent("positional", <<>>, FALSE,
                             IF Top.pos_index < Len(Cur.positionals) THEN Top.pos_index ELSE -1)
    /\ UNCHANGED <<args, ret, result, parser, tflag, tpos, tres, prior>>

\* classification step 3: the token is parsed as a flag
DispatchFlag ==
    /\ AtDispatcher /\ HasArg
    /\ ~(~Top.after_double_dash /\ IsDoubleDash(CurArg))
    /\ ~MatchesSubcommand(Cur, Top.after_double_dash, CurArg)
    /\ ~DispatchIsPositional
    /\ \E o \in {FlagOutcome(Cur, args, Top.i)} :
       /\ scopes' = [scopes EXCEPT !["app"] = o.sc]
       /\ vlog' = vlog \o o.calls
       /\ IF o.ret = None
          THEN /\ stack' = [stack EXCEPT ![1].i = o.i]
               /\ UNCHANGED <<outcome, pc>>
          ELSE DispatchFail(ValueOf(o.ret).error)
       /\ last' = DispatchEvent(IF o.found THEN "flag" ELSE "unknown_flag", o.name,
                                o.consumed, -1)
    /\ UNCHANGED <<args, ret, result, parser, tflag, tpos, tres, prior>>

\* subcommand recursion: the child's parse has returned to the dispatcher
DispatchChildReturn ==
    /\ pc = "parsing" /\ ret /= None /\ Len(stack) = 2 /\ stack[1].scope = "app"
    /\ LET r == ValueOf(ret)
           child == Top.scope
           marked == [scopes EXCEPT ![child].parsed = TRUE]
           valid == ValidateRequirements(scopes[child])
       IN  /\ IF ~r.ok
              THEN /\ outcome' = Some(Err(r.error))
                   /\ scopes' = scopes
              ELSE IF scopes[child].help_requested
              THEN /\ outcome' = Some(OkVoid)
                   /\ scopes' = [marked EXCEPT !["app"].help_requested = TRUE]
              ELSE IF ~valid.ok
              THEN /\ outcome' = Some(valid)
                   /\ scopes' = marked
              ELSE /\ outcome' = Some(OkVoid)
                   /\ scopes' = [marked EXCEPT ![child] = invoke_callback(marked[child])]
           /\ last' = [kind |-> "return", scope |-> "app", index |-> stack[1].i,
                       after |-> stack[1].after_double_dash,
                       name |-> scopes[child].name, consumed |-> FALSE, slot |-> -1]
    /\ result' = ret
    /\ ret' = None
    /\ stack' = <<>>
    /\ pc' = "done"
    /\ UNCHANGED <<args, vlog, parser, tflag, tpos, tres, prior>>

\* post-loop: no subcommand was selected; help skips requirement validation
DispatchPostLoop ==
    /\ AtDispatcher /\ ~HasArg
    /\ outcome' = Some(IF Cur.help_requested THEN OkVoid ELSE ValidateRequirements(Cur))
    /\ scopes' = [scopes EXCEPT !["app"].parsed = TRUE]
    /\ pc' = "done"
    /\ stack' = <<>>
    /\ last' = DispatchEvent("end", <<>>, FALSE, -1)
    /\ UNCHANGED <<args, ret, result, vlog, parser, tflag, tpos, tres, prior>>

\* the steps of Subcommand::parse_args in run and now
TreeDoubleDashStep == AtSubcommand /\ DoubleDashStep
TreeSubcommandStep == AtSubcommand /\ SubcommandStep
TreePositionalStep == AtSubcommand /\ PositionalStep
TreeFlagStep == AtSubcommand /\ FlagStep
TreeLoopExit == AtSubcommand /\ LoopExit
TreeSubcommandReturn == Len(stack) >= 3 /\ SubcommandReturn

NextTree ==
    \/ DispatchCall
    \/ DispatchDoubleDash
    \/ DispatchSubcommand
    \/ DispatchPositional
    \/ DispatchFlag
    \/ DispatchChildReturn
    \/ DispatchPostLoop
    \/ TreeDoubleDashStep
    \/ TreeSubcommandStep
    \/ TreePositionalStep
    \/ TreeFlagStep
    \/ TreeLoopExit
    \/ TreeSubcommandReturn

SpecTree == InitTree /\ [][NextTree]_vars

----------------------------------------------------------------------------
(* The string-based Parser (cppli.hpp, cppli.cpp) *)

\* ParseResult::ok(), ParseResult::err(msg)
ParseOk == [success |-> TRUE, error |-> <<>>]
ParseErr(msg) == [success |-> FALSE, error |-> msg]

\* class Flag, with its member initialisers
NewFlag(long_name) ==
    [short_name |-> <<>>, long_name |-> long_name, required |-> FALSE, has_value |-> FALSE,
     value |-> <<>>, default_value |-> <<>>, choices |-> <<>>, validator |-> "none",
     action |-> "none"]

\* std::function<bool(const std::string &)>: "none" is an empty function,
\* "one_char" stands for a caller's predicate (value.size() == 1)
RunStringValidator(v, val) == IF v = "one_char" THEN Len(val) = 1 ELSE TRUE

\* Flag::validate
StringFlagValidate(f) ==
    IF f.choices /= <<>> THEN \E k \in 1..Len(f.choices) : f.choices[k] = f.value
    ELSE IF f.validator /= "none" THEN RunStringValidator(f.validator, f.value)
    ELSE TRUE

\* Parser::Parser
NewParser ==
    [pc |-> "idle", flags |-> <<>>, short_to_long |-> <<>>, positionals |-> <<>>,
     i |-> 0, pos_index |-> 0, after_double_dash |-> FALSE, result |-> None,
     parsed |-> FALSE]

\* Parser::add_flag: an existing flag of that name is kept
parser_add_flag(p, long_name) ==
    IF long_name \in DOMAIN p.flags THEN p
    ELSE [p EXCEPT !.flags = MapPut(p.flags, long_name, NewFlag(long_name))]

\* FlagBuilder::short_name
fb_short_name(p, long_name, name) ==
    [p EXCEPT !.flags[long_name].short_name = name,
              !.short_to_long = MapPut(p.short_to_long, name, long_name)]
\* FlagBuilder::required
fb_required(p, long_name, req) == [p EXCEPT !.flags[long_name].required = req]
\* FlagBuilder::default_value
fb_default_value(p, long_name, val) ==
    [p EXCEPT !.flags[long_name].default_value = val,
              !.flags[long_name].value = val,
              !.flags[long_name].has_value = TRUE]
\* FlagBuilder::choices
fb_choices(p, long_name, options) == [p EXCEPT !.flags[long_name].choices = options]
\* FlagBuilder::validator
fb_validator(p, long_name, fn) == [p EXCEPT !.flags[long_name].validator = fn]
\* FlagBuilder::action: "user" is a caller's function that returns, "exit" one
\* that ends the process (the functions of add_help_flag and add_version_flag)
fb_action(p, long_name, fn) == [p EXCEPT !.flags[long_name].action = fn]

\* Parser::add_positional
parser_add_positional(p, name, required) ==
    [p EXCEPT !.positionals =
        Append(p.positionals, [name |-> name, required |-> required, value |-> <<>>,
                               validator |-> "none"])]

\* Parser::validate_requirements
ParserValidateRequirements(p) ==
    LET missingFlags == {n \in DOMAIN p.flags : p.flags[n].required /\ ~p.flags[n].has_value}
        missingPos == {k \in 1..Len(p.positionals) :
                          p.positionals[k].required /\ p.positionals[k].value = <<>>}
    IN  IF missingFlags /= {}
        THEN [p EXCEPT !.result =
                Some(ParseErr(<<"Required flag missing: --", StrMin(missingFlags)>>))]
        ELSE IF missingPos /= {}
        THEN [p EXCEPT !.result =
                Some(ParseErr(<<"Required positional missing: ",
                    p.positionals[CHOOSE k \in missingPos : \A j \in missingPos : k <= j].name>>))]
        ELSE [p EXCEPT !.parsed = TRUE, !.result = Some(ParseOk)]

\* Parser::parse, line 133: the token is a positional; arg[0] of an empty
\* std::string is the terminating '\0'
ParserIsPositionalToken(after_double_dash, arg) ==
    IF after_double_dash THEN TRUE
    ELSE IF arg = <<>> THEN TRUE
    ELSE arg[1] /= "-"

\* Variant of lines 133-139 with no bound test: a surplus token replaces the
\* value of the last declared positional
ParserPositionalOutcomeOverwrite(p, arg) ==
    IF p.pos_index >= Len(p.positionals)
    THEN IF p.positionals = <<>>
         THEN [p EXCEPT !.i = p.i + 1]
         ELSE [p EXCEPT !.positionals[Len(p.positionals)].value = arg, !.i = p.i + 1]
    ELSE [p EXCEPT !.positionals[p.pos_index + 1].value = arg,
                   !.pos_index = p.pos_index + 1,
                   !.i = p.i + 1]

\* Parser::parse, lines 133-139, one positional token
ParserPositionalOutcome(p, arg) ==
    IF p.pos_index >= Len(p.positionals)
    THEN [p EXCEPT !.result = Some(ParseErr(<<"Too many positional arguments">>)),
                   !.pc = "done"]
    ELSE [p EXCEPT !.positionals[p.pos_index + 1].value = arg,
                   !.pos_index = p.pos_index + 1,
                   !.i = p.i + 1]

\* Parser::parse, lines 141-160: the flag name and inline value of the token
ParserFlagToken(p, arg) ==
    IF StartsWith(arg, s_dashdash)
    THEN LET eq_pos == Find(arg, "=") IN
         IF eq_pos /= -1
         THEN [flag_name |-> SubstrN(arg, 2, eq_pos - 2),
               flag_value |-> Substr(arg, eq_pos + 1), has_value |-> TRUE]
         ELSE [flag_name |-> Substr(arg, 2), flag_value |-> <<>>, has_value |-> FALSE]
    ELSE LET short == Substr(arg, 1) IN
         [flag_name |-> IF short \in DOMAIN p.short_to_long THEN p.short_to_long[short]
                        ELSE short,
          flag_value |-> <<>>, has_value |-> FALSE]

\* Parser::parse, lines 141-185, one flag token: [p, name, found, consumed]
ParserFlagOutcome(p, a) ==
    LET arg == a[p.i + 1]
        tok == ParserFlagToken(p, arg)
    IN  IF tok.flag_name \notin DOMAIN p.flags
        THEN [p |-> [p EXCEPT !.result = Some(ParseErr(<<"Unknown flag: ", arg>>)),
                              !.pc = "done"],
              name |-> tok.flag_name, found |-> FALSE, consumed |-> FALSE]
        ELSE
        LET flag == p.flags[tok.flag_name]
            consumed == /\ ~tok.has_value
                        /\ p.i + 1 < Len(a)
                        /\ ~StartsWith(a[p.i + 2], s_dash)
            value == IF tok.has_value THEN tok.flag_value
                     ELSE IF consumed THEN a[p.i + 2]
                     ELSE s_true
            set == [flag EXCEPT !.has_value = TRUE, !.value = value]
            p1 == [p EXCEPT !.flags[tok.flag_name] = set]
        IN  IF flag.action = "exit"
            THEN [p |-> [p EXCEPT !.pc = "exited"],
                  name |-> tok.flag_name, found |-> TRUE, consumed |-> FALSE]
            ELSE IF flag.action /= "none"
            THEN [p |-> [p EXCEPT !.result = Some(ParseOk), !.pc = "done"],
                  name |-> tok.flag_name, found |-> TRUE, consumed |-> FALSE]
            ELSE IF ~StringFlagValidate(set)
            THEN [p |-> [p1 EXCEPT !.result =
                            Some(ParseErr(<<"Invalid value for --", tok.flag_name, ": ", value>>)),
                                   !.pc = "done"],
                  name |-> tok.flag_name, found |-> TRUE, consumed |-> consumed]
            ELSE [p |-> [p1 EXCEPT !.i = p.i + (IF consumed THEN 2 ELSE 1)],
                  name |-> tok.flag_name, found |-> TRUE, consumed |-> consumed]

t_dnum == <<"-", "n", "u", "m">>
s_4 == <<"4">>

ParserTokens == {t_v, t_num, t_dnum, s_dashdash, t_f, t_7, t_x, t_empty}
ParserArgLists == SeqsUpTo(ParserTokens, MaxArgs)

RECURSIVE ParserAddPositionals(_, _, _)
ParserAddPositionals(p, n, p1_required) ==
    IF n = 0 THEN p
    ELSE parser_add_positional(ParserAddPositionals(p, n - 1, p1_required),
                               IF n = 1 THEN s_p1 ELSE IF n = 2 THEN s_p2 ELSE s_px,
                               IF n = 1 THEN p1_required ELSE FALSE)

\* --vb/-v, --num, n positionals
ParserSchema(num_required, num_default, n, p1_required) ==
    LET p0 == fb_short_name(parser_add_flag(NewParser, s_vb), s_vb, s_v)
        p1 == fb_required(parser_add_flag(p0, s_num), s_num, num_required)
        p2 == IF num_default THEN fb_default_value(p1, s_num, s_4) ELSE p1
    IN  ParserAddPositionals(p2, n, p1_required)

InitParser ==
    /\ \E num_required \in BOOLEAN, num_default \in BOOLEAN, n \in 0..MaxPositionals,
          p1_required \in BOOLEAN :
            /\ (n = 0 => p1_required)
            /\ parser = ParserSchema(num_required, num_default, n, p1_required)
    /\ args \in ParserArgLists
    /\ scopes = <<>>
    /\ stack = <<>>
    /\ ret = None
    /\ pc = "idle"
    /\ result = None
    /\ outcome = None
    /\ last = NoEvent
    /\ vlog = <<>>
    /\ tflag = DescIdle
    /\ tpos = DescIdle
    /\ tres = None
    /\ prior = None

ParserScanning == parser.pc = "scan" /\ parser.i < Len(args)
ParserArg == args[parser.i + 1]

ParserEvent(kind, name, consumed, slot) ==
    [kind |-> kind, scope |-> "parser", index |-> parser.i,
     after |-> parser.after_double_dash, name |-> name, consumed |-> consumed, slot |-> slot]

\* Parser::parse is called; lines 121-123
ParserParseCall ==
    /\ parser.pc = "idle"
    /\ parser' = [parser EXCEPT !.pc = "scan", !.i = 0, !.pos_index = 0,
                                !.after_double_dash = FALSE]
    /\ UNCHANGED <<subVars, descVars, prior>>

\* lines 128-131
ParserDoubleDashStep ==
    /\ ParserScanning
    /\ IsDoubleDash(ParserArg)
    /\ parser' = [parser EXCEPT !.after_double_dash = TRUE, !.i = parser.i + 1]
    /\ last' = ParserEvent("double_dash", <<>>, FALSE, -1)
    /\ UNCHANGED <<scopes, args, stack, ret, pc, result, outcome, vlog, descVars, prior>>

\* lines 133-139
ParserPositionalStep ==
    /\ ParserScanning
    /\ ~IsDoubleDash(ParserArg)
    /\ ParserIsPositionalToken(parser.after_double_dash, ParserArg)
    /\ parser' = ParserPositionalOutcome(parser, ParserArg)
    /\ last' = ParserEvent("positional", <<>>, FALSE,
                           IF parser.pos_index < Len(parser.positionals)
                           THEN parser.pos_index ELSE -1)
    /\ UNCHANGED <<scopes, args, stack, ret, pc, result, outcome, vlog, descVars, prior>>

\* lines 141-185
ParserFlagStep ==
    /\ ParserScanning
    /\ ~IsDoubleDash(ParserArg)
    /\ ~ParserIsPositionalToken(parser.after_double_dash, ParserArg)
    /\ LET o == ParserFlagOutcome(parser, args) IN
       /\ parser' = o.p
       /\ last' = ParserEvent(IF o.found THEN "flag" ELSE "unknown_flag", o.name, o.consumed, -1)
    /\ UNCHANGED <<scopes, args, stack, ret, pc, result, outcome, vlog, descVars, prior>>

\* line 187: the loop has ended, return validate_requirements()
ParserLoopExit ==
    /\ parser.pc = "scan" /\ parser.i >= Len(args)
    /\ parser' = [ParserValidateRequirements(parser) EXCEPT !.pc = "done"]
    /\ last' = ParserEvent("end", <<>>, FALSE, -1)
    /\ UNCHANGED <<scopes, args, stack, ret, pc, result, outcome, vlog, descVars, prior>>

NextParser ==
    \/ ParserParseCall
    \/ ParserDoubleDashStep
    \/ ParserPositionalStep
    \/ ParserFlagStep
    \/ ParserLoopExit

SpecParser == InitParser /\ [][NextParser]_vars

----------------------------------------------------------------------------
(* A TypedFlag<T> and a TypedPositional<T> used on their own *)

t_40 == <<"4", "0">>
t_5 == <<"5">>
t_7x == <<"7", "x">>
t_m3 == <<"-", "3">>
t_big == <<"9", "9", "9", "9", "9", "9", "9", "9", "9", "9", "9">>

RawTokens == {t_7, t_40, t_5, t_f, s_no, t_empty, t_7x, t_m3, t_big}

\* the choice set and the default given to a descriptor of value type T
ChoicesOf(T) ==
    IF T = "int" THEN <<7, 40>> ELSE IF T = "bool" THEN <<TRUE>> ELSE <<t_f, t_7>>
DefaultOf(T) == IF T = "int" THEN 4 ELSE IF T = "bool" THEN FALSE ELSE t_empty

\* TypedFlag<T>(long_name), then set_choices, set_validator, set_default_value
ConfiguredFlag(T, with_choices, fn, with_default) ==
    LET f0 == NewTypedFlag(T, s_num)
        f1 == IF with_choices THEN set_choices(f0, ChoicesOf(T)) ELSE f0
        f2 == IF fn /= "none" THEN set_validator(f1, fn) ELSE f1
    IN  IF with_default THEN set_default_value(f2, DefaultOf(T)) ELSE f2

\* TypedPositional<T>(name, required), then set_validator
ConfiguredPositional(T, fn) ==
    LET p0 == NewTypedPositional(T, s_p1, TRUE)
    IN  IF fn /= "none" THEN pos_set_validator(p0, fn) ELSE p0

NoCall == [n |-> 0, target |-> "none", str |-> <<>>, before |-> <<>>, res |-> OkVoid,
           calls |-> <<>>]

InitFlag ==
    /\ \E T \in Types, with_choices \in BOOLEAN, fn \in Validators, with_default \in BOOLEAN :
          /\ (fn = "range" => T = "int")
          /\ tflag = ConfiguredFlag(T, with_choices, fn, with_default)
    /\ \E T \in Types, fn \in Validators :
          /\ (fn = "range" => T = "int")
          /\ tpos = ConfiguredPositional(T, fn)
    /\ tres = NoCall
    /\ prior = None
    /\ parser = ParserIdle
    /\ args = <<>>
    /\ scopes = <<>>
    /\ stack = <<>>
    /\ ret = None
    /\ pc = "idle"
    /\ result = None
    /\ outcome = None
    /\ last = NoEvent
    /\ vlog = <<>>

\* flag.set_value_from_string(str)
FlagSetCall ==
    /\ tres.n < MaxSets
    /\ \E str \in RawTokens :
          LET o == FlagSetValueFromString(tflag, str) IN
          /\ tflag' = o.flag
          /\ tres' = [n |-> tres.n + 1, target |-> "flag", str |-> str, before |-> tflag,
                      res |-> o.res, calls |-> o.calls]
    /\ UNCHANGED <<subVars, parser, tpos, prior>>

\* positional.set_value_from_string(str)
PosSetCall ==
    /\ tres.n < MaxSets
    /\ \E str \in RawTokens :
          LET o == PosSetValueFromString(tpos, str) IN
          /\ tpos' = o.pos
          /\ tres' = [n |-> tres.n + 1, target |-> "positional", str |-> str, before |-> tpos,
                      res |-> o.res, calls |-> o.calls]
    /\ UNCHANGED <<subVars, parser, tflag, prior>>

NextFlag ==
    \/ FlagSetCall
    \/ PosSetCall

SpecFlag == InitFlag /\ [][NextFlag]_vars

----------------------------------------------------------------------------
(* Properties of Subcommand::parse_args and Subcommand::validate_requirements *)

\* the result of the activation the last step belonged to, once it has one
LastResult == IF ret /= None THEN ret
              ELSE IF pc \in {"returned", "done"} THEN result
              ELSE None

LastFailedWith(code) ==
    /\ LastResult /= None
    /\ ~ValueOf(LastResult).ok
    /\ ValueOf(LastResult).error.code = code

\* the last step parsed a declared flag given without an inline =value
LastIsPlainFlag ==
    /\ last.kind = "flag"
    /\ ~(StartsWith(args[last.index + 1], s_dashdash) /\ Find(args[last.index + 1], "=") /= -1)

LastFlag == scopes[last.scope].flags[last.name]

\* a token follows the flag token of the last step and does not start with "-"
LastHasBareFollower ==
    /\ last.index + 1 < Len(args)
    /\ ~StartsWith(args[last.index + 2], s_dash)

EightLiterals == {s_true, s_false, s_1, s_0, s_yes, s_no, s_on, s_off}

\* C1: a boolean flag without inline value followed by a token not starting with
\* "-" takes that token as its value iff the token is one of the eight boolean
\* literals; otherwise the flag becomes true and the scan goes on with the
\* following token as the next token to classify.
C1_BooleanLookahead ==
    (LastIsPlainFlag /\ LastFlag.type = "bool" /\ LastHasBareFollower) =>
        LET follower == args[last.index + 2] IN
        /\ last.consumed <=> follower \in EightLiterals
        /\ ~last.consumed =>
              /\ LastFlag.value = Some(TRUE)
              /\ LastResult = None => (Top.scope = last.scope /\ Top.i = last.index + 1)
        /\ last.consumed =>
              /\ LastFlag.value = Some(follower \in {s_true, s_1, s_yes, s_on})
              /\ LastResult = None => (Top.scope = last.scope /\ Top.i = last.index + 2)

\* C1 witness: -v file against boolean v and one positional: v = true, positional = file
C1_Witness ==
    /\ args = <<t_v, t_f>>
    /\ pc = "done"
    /\ ValueOf(outcome).ok
    /\ scopes["root"].flags[s_vb].value = Some(TRUE)
    /\ Len(scopes["root"].positionals) = 1
    /\ scopes["root"].positionals[1].value = Some(t_f)

\* C2, as stated: once "--" has been seen in a scope, every later token of that
\* scope is handled as a positional.
C2_AfterDoubleDashAllPositional ==
    (last.after /\ last.kind \in {"double_dash", "subcommand", "positional", "flag", "unknown_flag"})
        => last.kind = "positional"

\* C3, as stated: a positional token met when every declared positional slot is
\* filled makes parse_args fail with TooManyPositionals.
C3_TooManyPositionals ==
    (last.kind = "positional" /\ last.slot = -1) => LastFailedWith("TooManyPositionals")

\* C5: a declared non-boolean flag without inline value fails with MissingFlagValue
\* exactly when it is the last token or the following token starts with "-";
\* otherwise the following token is taken as its value, whatever it is, and the
\* scan resumes after it.
C5_MissingFlagValue ==
    (LastIsPlainFlag /\ LastFlag.type /= "bool") =>
        /\ LastFailedWith("MissingFlagValue") <=> ~LastHasBareFollower
        /\ last.consumed <=> LastHasBareFollower
        /\ (LastHasBareFollower /\ LastResult = None) =>
              /\ Top.scope = last.scope /\ Top.i = last.index + 2
              /\ FromString(LastFlag.type, args[last.index + 2]) = Ok(ValueOf(LastFlag.value))

\* C5 witness: the token after --num is the subcommand name run; it is taken as the value
C5_Witness ==
    /\ LastIsPlainFlag /\ LastFlag.type /= "bool"
    /\ last.index + 1 < Len(args)
    /\ args[last.index + 2] = s_run
    /\ args[last.index + 2] \in DOMAIN scopes[last.scope].subcommands
    /\ last.consumed
    /\ ~LastFailedWith("MissingFlagValue")

RequiredFlagMissing(sc) ==
    \E n \in DOMAIN sc.flags : sc.flags[n].required /\ sc.flags[n].value = None
RequiredPositionalMissing(sc) ==
    \E k \in 1..Len(sc.positionals) : sc.positionals[k].required /\ sc.positionals[k].value = None

\* C7: after a scan without error, requirement validation fails with
\* MissingRequiredFlag if a required flag has no value, otherwise with
\* MissingRequiredPositional if a required positional has no value, and succeeds
\* otherwise; with both missing the flag is reported.
C7_RequirementValidation ==
    (pc = "done" /\ ValueOf(result).ok) =>
        LET o == ValueOf(outcome) IN
        IF RequiredFlagMissing(scopes["root"])
        THEN ~o.ok /\ o.error.code = "MissingRequiredFlag"
        ELSE IF RequiredPositionalMissing(scopes["root"])
        THEN ~o.ok /\ o.error.code = "MissingRequiredPositional"
        ELSE o.ok

\* C7 witness: a required flag and a required positional are both missing
C7_Witness ==
    /\ pc = "done" /\ ValueOf(result).ok
    /\ RequiredFlagMissing(scopes["root"])
    /\ RequiredPositionalMissing(scopes["root"])
    /\ ValueOf(outcome).error.code = "MissingRequiredFlag"

AnyMarkedRequired(sc) ==
    \/ \E n \in DOMAIN sc.flags : sc.flags[n].required
    \/ \E k \in 1..Len(sc.positionals) : sc.positionals[k].required

\* C8, as stated: parsing the empty token sequence succeeds iff no declared flag
\* and no declared positional is marked required.
C8_EmptyParseOriginal ==
    (pc = "done" /\ args = <<>>) =>
        (ValueOf(outcome).ok <=> ~AnyMarkedRequired(scopes["root"]))

\* C8, amended: parsing the empty token sequence on a freshly declared schema
\* succeeds iff no declared positional is marked required and every declared flag
\* marked required has a default value.
C8_EmptyParse ==
    (pc = "done" /\ args = <<>>) =>
        LET sc == scopes["root"] IN
        ValueOf(outcome).ok <=>
            /\ \A n \in DOMAIN sc.flags :
                  sc.flags[n].required => sc.flags[n].default_value /= None
            /\ \A k \in 1..Len(sc.positionals) : ~sc.positionals[k].required

\* C8 witness: a required flag with a default value, empty arguments, success
C8_Witness ==
    /\ pc = "done" /\ args = <<>>
    /\ scopes["root"].flags[s_num].required
    /\ scopes["root"].flags[s_num].default_value = Some(4)
    /\ ValueOf(outcome).ok

----------------------------------------------------------------------------
(* Properties of Parser::parse *)

TooManyPositionalsError == ParseErr(<<"Too many positional arguments">>)

\* the token at 0-based index k has the shape of a positional: it does not
\* start with `-`, or a `--` token precedes it
PositionalShaped(a, k) ==
    \/ \E j \in 1..k : a[j] = s_dashdash
    \/ ~StartsWith(a[k + 1], s_dash)

\* C4, as stated: every argument list holding more positional-shaped tokens
\* than the parser declares positionals ends Parser::parse with the
\* too-many-positionals error.
C4_TooManyPositionalsByShape ==
    (/\ parser.pc = "done"
     /\ Cardinality({k \in 0..(Len(args) - 1) : PositionalShaped(args, k)})
            > Len(parser.positionals))
        => parser.result = Some(TooManyPositionalsError)

\* C4, amended: a token that the scan of Parser::parse classifies as a
\* positional when every declared positional has been filled ends the parse
\* at that token with the too-many-positionals error, and no positional or
\* flag value is changed by it.
C4_SurplusPositional ==
    [][(/\ ParserScanning
        /\ ~IsDoubleDash(ParserArg)
        /\ ParserIsPositionalToken(parser.after_double_dash, ParserArg)
        /\ parser.pos_index >= Len(parser.positionals))
          => /\ parser'.result = Some(TooManyPositionalsError)
             /\ parser'.pc = "done"
             /\ parser'.i = parser.i
             /\ parser'.positionals = parser.positionals
             /\ parser'.flags = parser.flags]_vars

\* a surplus positional arrived after an earlier one had been stored
C4_Witness ==
    /\ last.scope = "parser" /\ last.kind = "positional" /\ last.slot = -1
    /\ parser.result = Some(TooManyPositionalsError)
    /\ Len(parser.positionals) >= 1
    /\ parser.positionals[1].value = t_f
    /\ args[last.index + 1] = t_7

\* the short names of the declared flags
ParserShortNames == {parser.flags[n].short_name : n \in DOMAIN parser.flags} \ {<<>>}

\* the token names no declared flag: its long name (for `--name`,
\* `--name=value`) is not declared, or its short name (for `-x`) is not the
\* short name of a declared flag
ParserNamesNoFlag(arg) ==
    IF StartsWith(arg, s_dashdash)
    THEN ParserFlagToken(parser, arg).flag_name \notin DOMAIN parser.flags
    ELSE Substr(arg, 1) \notin ParserShortNames

\* C6: a token starting with `-`, met before any `--`, that names no declared
\* flag makes the parse fail with the unknown-flag error and changes no flag
\* or positional value.
C6_UnknownFlag ==
    [][(/\ ParserScanning
        /\ ~parser.after_double_dash
        /\ ~IsDoubleDash(ParserArg)
        /\ StartsWith(ParserArg, s_dash)
        /\ ParserNamesNoFlag(ParserArg))
          => /\ parser'.result = Some(ParseErr(<<"Unknown flag: ", ParserArg>>))
             /\ parser'.flags = parser.flags
             /\ parser'.positionals = parser.positionals]_vars

----------------------------------------------------------------------------
(* Properties of TypedFlag::set_value_from_string and
   TypedPositional::set_value_from_string *)

\* the last call was flag.set_value_from_string and its token converted
LastFlagCallConverted == tres.target = "flag" /\ FromString(tres.before.type, tres.str).ok
LastConverted == FromString(tres.before.type, tres.str).value
LastInChoices ==
    \E k \in 1..Len(tres.before.choices) : tres.before.choices[k] = LastConverted

\* C9: with a non-empty choice set, a converted value outside the set fails
\* with ValidationFailed and the validator is not invoked on it; a value
\* inside the set is accepted exactly when no validator is configured or the
\* validator, invoked on that value, accepts it.
C9_ChoicesBeforeValidator ==
    (LastFlagCallConverted /\ tres.before.choices /= <<>>) =>
        /\ ~LastInChoices =>
              /\ ~tres.res.ok
              /\ tres.res.error.code = "ValidationFailed"
              /\ tres.calls = <<>>
        /\ LastInChoices =>
              /\ tres.calls = IF tres.before.validator = "none" THEN <<>>
                              ELSE <<[name |-> tres.before.long_name, value |-> LastConverted]>>
              /\ tres.res.ok <=> RunValidator(tres.before.validator, LastConverted).ok
        /\ \A k \in 1..Len(tres.calls) :
              \E j \in 1..Len(tres.before.choices) :
                  tres.before.choices[j] = tres.calls[k].value

\* the validator would have accepted 5, but 5 is not a choice: it was not asked
C9_Witness ==
    /\ tres.target = "flag" /\ tres.str = t_5
    /\ tres.before.type = "int"
    /\ tres.before.choices = <<7, 40>> /\ tres.before.validator = "range"
    /\ ~tres.res.ok /\ tres.res.error.code = "ValidationFailed"
    /\ tres.calls = <<>>

\* the descriptor the last call was made on, as it is now
LastTarget == IF tres.target = "flag" THEN tflag ELSE tpos

\* C10: when the token fails conversion, set_value_from_string of a flag and
\* of a positional returns the converter's error as it is (kind
\* InvalidFlagValue, same message), invokes no validator and leaves the
\* descriptor, its current value included, as it was.
C10_ConversionFailure ==
    (tres.target /= "none" /\ ~FromString(tres.before.type, tres.str).ok) =>
        /\ tres.res = Err(FromString(tres.before.type, tres.str).error)
        /\ tres.res.error.code = "InvalidFlagValue"
        /\ tres.calls = <<>>
        /\ LastTarget = tres.before
        /\ LastTarget.value = tres.before.value

\* an int flag holding 7 from an earlier token is given "f"
C10_Witness ==
    /\ tres.target = "flag" /\ tres.str = t_f
    /\ tres.before.type = "int" /\ tres.before.value = Some(7)
    /\ tres.before.default_value = Some(4)
    /\ ~tres.res.ok
    /\ tflag.value = Some(7)

----------------------------------------------------------------------------
(* The first failure of Subcommand::parse_args *)

\* an activation of parse_args holds an error it is about to return
Failing == pc = "parsing" /\ ret /= None /\ ~ValueOf(ret).ok

\* C11: once a token has produced a failure in Subcommand::parse_args, the parse
\* is over: no later step changes a flag, a positional or a subcommand, none
\* runs a validator, no other error takes the place of the first one, and the
\* same error, kind and message, is handed through every enclosing activation
\* to the caller
C11_FirstFailureAborts ==
    [][/\ Failing =>
            /\ scopes' = scopes
            /\ vlog' = vlog
            /\ IF Len(stack) >= 2 THEN ret' = ret ELSE result' = ret
       /\ (pc = "returned" /\ ~ValueOf(result).ok) =>
            /\ scopes' = scopes
            /\ outcome' = result]_vars

\* C11 witness: run -x 7 with run not fallthrough: -x fails in run with
\* UnknownFlag, the error has gone through the root to the caller, and the
\* token 7 after it was stored nowhere
C11_Witness ==
    /\ pc = "done"
    /\ args = <<s_run, t_x, t_7>>
    /\ last.kind = "return"
    /\ outcome = Some(Err(unknown_flag(t_x)))
    /\ \A k \in 1..Len(scopes["run"].positionals) : ~HasValue(scopes["run"].positionals[k].value)

----------------------------------------------------------------------------
(* Subcommand selection *)

\* the token under the cursor is, in the words of the scan, a subcommand name:
\* no "--" seen yet, not empty, no leading "-", a key of subcommands_
AtSubcommandName ==
    /\ Running /\ HasArg
    /\ ~Top.after_double_dash
    /\ CurArg /= <<>>
    /\ CurArg[1] /= "-"
    /\ CurArg \in DOMAIN Cur.subcommands

\* the activations below the innermost one
Callers == SubSeq(stack, 1, Len(stack) - 1)

----------------------------------------------------------------------------
(* The selected subcommands of the command tree *)

\* the scopes along the selection path below the dispatcher
SelectedScopes ==
    IF scopes["app"].selected_subcommand /= Some(s_run) THEN {}
    ELSE IF scopes["run"].selected_subcommand /= Some(s_now) THEN {"run"}
    ELSE {"run", "now"}

AnyHelpRequested == \E id \in TreeScopeIds : scopes[id].help_requested

OutcomeFailedWith(codes) ==
    /\ outcome /= None
    /\ ~ValueOf(outcome).ok
    /\ ValueOf(outcome).error.code \in codes

\* C13, as stated: when the parse of a selected subcommand, at any depth, has
\* succeeded, help was not requested, and the subcommand has a required flag or
\* a required positional without a value, the whole parse fails with
\* MissingRequiredFlag or MissingRequiredPositional
C13_ChildRequirementValidation ==
    pc = "done" =>
        \A c \in SelectedScopes :
            (/\ scopes[c].parsed
             /\ ~AnyHelpRequested
             /\ ~ValidateRequirements(scopes[c]).ok) =>
                OutcomeFailedWith({"MissingRequiredFlag", "MissingRequiredPositional"})

\* C14, as stated: at the end of a parse the callback of a subcommand has been
\* invoked at most once; it has been invoked only if the subcommand was
\* selected, its parse and its requirement validation succeeded and it did not
\* ask for help; and it has been invoked if moreover no scope asked for help
\* and the whole parse succeeded
C14_CallbackOncePerSelection ==
    pc = "done" =>
        \A c \in {"run", "now"} :
            scopes[c].callback =>
                LET fit == /\ c \in SelectedScopes
                           /\ scopes[c].parsed
                           /\ ValidateRequirements(scopes[c]).ok
                IN  /\ scopes[c].callback_calls \in {0, 1}
                    /\ scopes[c].callback_calls = 1 => (fit /\ ~scopes[c].help_requested)
                    /\ (fit /\ ~AnyHelpRequested /\ ValueOf(outcome).ok) =>
                            scopes[c].callback_calls = 1

----------------------------------------------------------------------------
(* Help requested in a selected subcommand *)

\* the scopes above c on the selection path
Ancestors(c) == IF c = "run" THEN {"app"} ELSE {"app", "run"}

\* help has reached every ancestor of c and the parse ended successful
HelpShortCircuits(c) ==
    /\ \A a \in Ancestors(c) : scopes[a].help_requested
    /\ outcome = Some(OkVoid)

\* C15, as stated: at the end of a parse, a selected subcommand that has
\* help_requested set has it set on every ancestor too, and the parse is
\* successful
C15_HelpAfterChildParse ==
    pc = "done" =>
        \A c \in SelectedScopes : scopes[c].help_requested => HelpShortCircuits(c)

\* C15, amended: at the end of a parse, a selected subcommand whose own parse
\* succeeded and that has help_requested set has it set on every ancestor too,
\* and the parse is successful, whatever required flags or positionals lack a
\* value
C15_HelpAfterSuccessfulChildParse ==
    pc = "done" =>
        \A c \in SelectedScopes :
            (scopes[c].parsed /\ scopes[c].help_requested) => HelpShortCircuits(c)

\* C15 witness: run now --help, where app and now each lack a required flag:
\* help has gone from now through run to app and the parse is successful
C15_Witness ==
    /\ pc = "done"
    /\ args = <<s_run, s_now, t_help>>
    /\ scopes["now"].parsed /\ scopes["now"].help_requested
    /\ scopes["run"].help_requested /\ scopes["app"].help_requested
    /\ ~ValidateRequirements(scopes["now"]).ok
    /\ ~ValidateRequirements(scopes["app"]).ok
    /\ outcome = Some(OkVoid)

----------------------------------------------------------------------------
(* Fallthrough *)

\* the parse of the root has returned index k, which the selected fallthrough
\* subcommand run handed up when it met, before any "--", a token starting
\* with "-" that it does not declare
RunFellThroughAt(k) ==
    /\ pc = "done"
    /\ scopes["root"].selected_subcommand = Some(s_run)
    /\ scopes["run"].fallthrough
    /\ result = Some(Ok(k))
    /\ k < Len(args)
    /\ StartsWith(args[k + 1], s_dash)
    /\ \A j \in 1..(k + 1) : args[j] /= s_dashdash

\* C16, as stated: the token at which a fallthrough subcommand stopped is
\* resolved by the parent: a flag the parent declares has a value on the parent
\* at the end, and a flag declared on neither makes the parse fail with
\* UnknownFlag
C16_FallthroughToParent ==
    \A k \in 0..MaxArgs :
        RunFellThroughAt(k) =>
            LET tok == FlagToken(scopes["root"], args[k + 1]) IN
            IF tok.known /\ tok.flag_name \in DOMAIN scopes["root"].flags
            THEN HasValue(scopes["root"].flags[tok.flag_name].value)
            ELSE OutcomeFailedWith({"UnknownFlag"})

----------------------------------------------------------------------------
(* Tokens of the form --name=value, given to Subcommand::parse_args and to
   Parser::parse *)

s_o == <<"o">>
t_o == <<"-", "-", "o">>
t_o_ab == <<"-", "-", "o", "=", "a", "=", "b">>
t_o_e == <<"-", "-", "o", "=">>
t_vb_no == <<"-", "-", "v", "b", "=", "n", "o">>
t_num_7 == <<"-", "-", "n", "u", "m", "=", "7">>
t_zz_1 == <<"-", "-", "z", "z", "=", "1">>

EqTokens == {t_o, t_o_ab, t_o_e, t_vb_no, t_num_7, t_zz_1, t_f, s_no, t_7}
EqArgLists == SeqsUpTo(EqTokens, MaxArgs)

\* a Subcommand with --vb/-v (bool), --num (int), --o (string), one positional
EqRootSchema ==
    LET vb == set_short_name(NewTypedFlag("bool", s_vb), s_v)
        num == NewTypedFlag("int", s_num)
        o == NewTypedFlag("string", s_o)
    IN  add_positional(add_flag(add_flag(add_flag(NewSubcommand("root"), vb), num), o),
                       NewTypedPositional("string", s_p1, FALSE))

\* a Parser with --vb/-v, --num, --o, one positional
EqParserSchema ==
    parser_add_positional(
        parser_add_flag(parser_add_flag(
            fb_short_name(parser_add_flag(NewParser, s_vb), s_vb, s_v), s_num), s_o),
        s_p1, FALSE)

\* either the Subcommand or the Parser is about to parse the argument list
InitEq ==
    /\ args \in EqArgLists
    /\ \/ /\ scopes = [id \in {"root"} |-> EqRootSchema]
          /\ pc = "idle"
          /\ parser = ParserIdle
       \/ /\ scopes = <<>>
          /\ pc = "unused"
          /\ parser = EqParserSchema
    /\ stack = <<>>
    /\ ret = None
    /\ result = None
    /\ outcome = None
    /\ last = NoEvent
    /\ vlog = <<>>
    /\ tflag = DescIdle
    /\ tpos = DescIdle
    /\ tres = None
    /\ prior = None

\* the schema has no subcommand and no token is "--": the other steps of the
\* two scans are never enabled
NextEq ==
    \/ ParseArgsCall
    \/ PositionalStep
    \/ FlagStep
    \/ LoopExit
    \/ ParseArgsReturn
    \/ ValidateStep
    \/ ParserParseCall
    \/ ParserPositionalStep
    \/ ParserFlagStep
    \/ ParserLoopExit

SpecEq == InitEq /\ [][NextEq]_vars

\* the last step parsed a token --name=value
LastToken == args[last.index + 1]
LastIsInlineFlag ==
    /\ last.kind \in {"flag", "unknown_flag"}
    /\ StartsWith(LastToken, s_dashdash)
    /\ \E k \in 1..Len(LastToken) : LastToken[k] = "="

\* position of the first "=" of the last token
LastEq == CHOOSE k \in 1..Len(LastToken) :
              LastToken[k] = "=" /\ \A j \in 1..(k - 1) : LastToken[j] /= "="
LastInlineName == SubSeq(LastToken, 3, LastEq - 1)
LastInlineValue == SubSeq(LastToken, LastEq + 1, Len(LastToken))

\* C17: a token --name=value names the flag written between "--" and the first
\* "=", and gives it the text after that "=" as its value, be it empty or with
\* further "=" in it; the token after it is not taken as the flag's value, and
\* the scan goes on with it
C17_InlineValue ==
    LastIsInlineFlag =>
        /\ last.name = LastInlineName
        /\ ~last.consumed
        /\ last.kind = "flag" =>
              IF last.scope = "parser"
              THEN /\ parser.flags[last.name].has_value
                   /\ parser.flags[last.name].value = LastInlineValue
                   /\ parser.pc = "scan" => parser.i = last.index + 1
              ELSE LET flag == scopes[last.scope].flags[last.name]
                       converted == FromString(flag.type, LastInlineValue)
                   IN  /\ converted.ok => flag.value = Some(converted.value)
                       /\ converted.ok <=> LastResult = None
                       /\ LastResult = None => Top.i = last.index + 1
                       /\ ~LastFailedWith("MissingFlagValue")

\* C17 witness: --o=a=b f given to the Subcommand: o holds a=b and f went to
\* the positional
C17_Witness ==
    /\ pc = "done"
    /\ args = <<t_o_ab, t_f>>
    /\ scopes["root"].flags[s_o].value = Some(<<"a", "=", "b">>)
    /\ scopes["root"].positionals[1].value = Some(t_f)
    /\ ValueOf(outcome).ok

----------------------------------------------------------------------------
(* Default values and the queries get and has *)

\* the token names the flag f: --long, --long=..., or -short
Mentions(tok, f) ==
    \/ tok = s_dashdash \o f.long_name
    \/ /\ Len(tok) > Len(f.long_name) + 2
       /\ SubSeq(tok, 1, Len(f.long_name) + 3) = s_dashdash \o f.long_name \o <<"=">>
    \/ f.short_name /= <<>> /\ tok = s_dash \o f.short_name

Mentioned(f) == \E k \in 1..Len(args) : Mentions(args[k], f)

\* the last step set the flag name of scope id from the token after it
LastSetFromFollower(id, name) ==
    /\ last.kind = "flag" /\ last.scope = id /\ last.name = name
    /\ last.consumed
    /\ LastResult = None

C19_TypedGet ==
    \A id \in ScopeIds, T \in Types, name \in {s_num, s_vb, s_px} :
        LET sc == scopes[id] IN
        IF name \in DOMAIN sc.flags /\ HasValue(sc.flags[name].value)
           /\ sc.flags[name].type = T
        THEN Get(sc, T, name) = {sc.flags[name].value}
        ELSE Get(sc, T, name) = {None}

\* C20, as stated: has(name) is true exactly when a token of a parsed argument
\* list set the flag: it is false for every flag while nothing has been parsed,
\* it is true only of a flag that some token of the argument list names, and it
\* is true once a step of the scan has set the flag
C20_HasMeansProvided ==
    /\ \A id \in ScopeIds :
          \A name \in DOMAIN scopes[id].flags :
              Has(scopes[id], name) =>
                  /\ pc /= "idle"
                  /\ Mentioned(scopes[id].flags[name])
    /\ (last.kind = "flag" /\ LastResult = None) => Has(scopes[last.scope], last.name)

----------------------------------------------------------------------------
(* The same Subcommand parsed twice, its short names changed in between *)

\* length of each of the two argument lists
MaxReparseArgs == 2

s_x == <<"x">>
ReparseTokens == {t_v, t_x, t_num, t_7, s_run}
ReparseArgLists == SeqsUpTo(ReparseTokens, MaxReparseArgs)

\* root: --vb/-v (bool), --num (int), one positional, the subcommand run
InitReparse ==
    /\ scopes = [id \in ScopeIds |->
                    IF id = "root" THEN RootSchema(FALSE, FALSE, 1, FALSE)
                    ELSE RunSchema(FALSE)]
    /\ args \in ReparseArgLists
    /\ stack = <<>>
    /\ ret = None
    /\ pc = "idle"
    /\ result = None
    /\ outcome = None
    /\ last = NoEvent
    /\ vlog = <<>>
    /\ parser = ParserIdle
    /\ tflag = DescIdle
    /\ tpos = DescIdle
    /\ tres = None
    /\ prior = None

\* the caller keeps the TypedFlag& that add_flag returned and calls
\* set_short_name on it, before the first parse or between the two
SetShortName ==
    /\ pc \in {"idle", "done"}
    /\ prior = None
    /\ \E short \in {s_x, s_v} :
          /\ scopes["root"].flags[s_num].short_name /= short
          /\ scopes' = [scopes EXCEPT !["root"].flags[s_num] =
                                         set_short_name(scopes["root"].flags[s_num], short)]
    /\ UNCHANGED <<args, stack, ret, pc, result, outcome, last, vlog, parser, tflag, tpos, tres,
                   prior>>

\* Variant of ReparseCall: the call puts every flag of the root back to its default
ReparseCallReset ==
    /\ pc = "done"
    /\ prior = None
    /\ prior' = Some(scopes)
    /\ args' \in ReparseArgLists
    /\ scopes' = [scopes EXCEPT
                    !["root"].short_to_long = RebuildShortToLong(scopes["root"]),
                    !["root"].flags = [n \in DOMAIN scopes["root"].flags |->
                                         [scopes["root"].flags[n] EXCEPT
                                            !.value = scopes["root"].flags[n].default_value]]]
    /\ stack' = <<NewFrame("root", 0)>>
    /\ pc' = "parsing"
    /\ result' = None
    /\ outcome' = None
    /\ last' = NoEvent
    /\ UNCHANGED <<ret, vlog, parser, tflag, tpos, tres>>

\* parse_args(args, 0) is called on the root a second time, with another list
ReparseCall ==
    /\ pc = "done"
    /\ prior = None
    /\ prior' = Some(scopes)
    /\ args' \in ReparseArgLists
    /\ scopes' = [scopes EXCEPT !["root"].short_to_long = RebuildShortToLong(scopes["root"])]
    /\ stack' = <<NewFrame("root", 0)>>
    /\ pc' = "parsing"
    /\ result' = None
    /\ outcome' = None
    /\ last' = NoEvent
    /\ UNCHANGED <<ret, vlog, parser, tflag, tpos, tres>>

\* no token is "--": DoubleDashStep is never enabled
NextReparse ==
    \/ ParseArgsCall
    \/ SubcommandStep
    \/ PositionalStep
    \/ FlagStep
    \/ LoopExit
    \/ SubcommandReturn
    \/ ParseArgsReturn
    \/ ValidateStep
    \/ SetShortName
    \/ ReparseCall

SpecReparse == InitReparse /\ [][NextReparse]_vars

\* the flag the last step set holds the value converted from its token
LastFlagHoldsToken ==
    LET f == scopes[last.scope].flags[last.name]
        str == IF last.consumed THEN args[last.index + 2] ELSE s_true
    IN  f.value = Some(FromString(f.type, str).value)

\* C21: in a second parse of the same Subcommand nothing but the short-name
\* index is reset: when the second parse starts every scope is as the first
\* parse left it; a flag or positional that had a value keeps having one, a
\* flag changes its value only if a token of the second list names it, a
\* positional only to a token of the second list; a flag set by the second
\* parse holds the value of the second list; and selected_subcommand, parsed
\* and help_requested, once set, stay set
C21_ReparseKeepsState ==
    prior /= None =>
        LET old == ValueOf(prior) IN
        /\ \A id \in ScopeIds :
              /\ DOMAIN scopes[id].flags = DOMAIN old[id].flags
              /\ \A name \in DOMAIN scopes[id].flags :
                    LET f == scopes[id].flags[name]
                        g == old[id].flags[name]
                    IN  /\ HasValue(g.value) => HasValue(f.value)
                        /\ f.value /= g.value => Mentioned(f)
              /\ Len(scopes[id].positionals) = Len(old[id].positionals)
              /\ \A k \in 1..Len(scopes[id].positionals) :
                    LET p == scopes[id].positionals[k]
                        q == old[id].positionals[k]
                    IN  /\ HasValue(q.value) => HasValue(p.value)
                        /\ p.value /= q.value => \E j \in 1..Len(args) : p.value = Some(args[j])
              /\ old[id].selected_subcommand /= None => scopes[id].selected_subcommand /= None
              /\ old[id].parsed => scopes[id].parsed
              /\ old[id].help_requested => scopes[id].help_requested
        /\ (pc = "parsing" /\ last.kind = "none") =>
              scopes = [old EXCEPT !["root"].short_to_long = scopes["root"].short_to_long]
        /\ (last.kind = "flag" /\ LastResult = None) => LastFlagHoldsToken

\* C21 witness: --num 7, then -v: after the second parse num still holds 7 and
\* vb, which had no value, is true
C21_Witness ==
    /\ prior /= None
    /\ pc = "done"
    /\ args = <<t_v>>
    /\ ValueOf(prior)["root"].flags[s_num].value = Some(7)
    /\ ValueOf(prior)["root"].flags[s_vb].value = None
    /\ scopes["root"].flags[s_num].value = Some(7)
    /\ scopes["root"].flags[s_vb].value = Some(TRUE)

----------------------------------------------------------------------------
(* The short-name index *)

\* every entry of the index names a flag that has that short name now, and
\* every short name in use has an entry
ShortIndexCurrent(sc) ==
    /\ \A s \in DOMAIN sc.short_to_long :
          /\ sc.short_to_long[s] \in DOMAIN sc.flags
          /\ sc.flags[sc.short_to_long[s]].short_name = s
    /\ \A n \in DOMAIN sc.flags :
          sc.flags[n].short_name /= <<>> => sc.flags[n].short_name \in DOMAIN sc.short_to_long

\* -s followed by v does to the scope what --L followed by v does
SameAsLong(sc, s, v) ==
    LET short == FlagOutcome(sc, <<s_dash \o s, v>>, 0)
        long == FlagOutcome(sc, <<s_dashdash \o sc.short_to_long[s], v>>, 0)
    IN  /\ short.sc = long.sc
        /\ short.ret = long.ret
        /\ short.i = long.i
        /\ short.found /\ short.name = sc.short_to_long[s]

\* C29: while a scope is being scanned its short-name index is the one its flags
\* give now: every entry s -> L names a declared flag L with short name s,
\* every short name in use has an entry, nothing is left of a short name that
\* was changed, and -s with a value sets what --L with that value sets
C29_ShortNameIndex ==
    pc = "parsing" =>
        \A k \in 1..Len(stack) :
            LET sc == scopes[stack[k].scope] IN
            /\ ShortIndexCurrent(sc)
            /\ \A s \in DOMAIN sc.short_to_long :
                  \A v \in {t_7, s_run, t_v} : SameAsLong(sc, s, v)

\* C29 witness: the index of the first parse had no entry for x, --num was given
\* the short name x after it, and the second parse of -x 7 sets num to 7
C29_Witness ==
    /\ prior /= None
    /\ pc = "done"
    /\ s_x \notin DOMAIN ValueOf(prior)["root"].short_to_long
    /\ s_x \in DOMAIN scopes["root"].short_to_long
    /\ scopes["root"].short_to_long[s_x] = s_num
    /\ ValueOf(prior)["root"].flags[s_num].value = None
    /\ args = <<t_x, t_7>>
    /\ scopes["root"].flags[s_num].value = Some(7)

----------------------------------------------------------------------------
(* Declarations: add_flag and the setters, on a Subcommand and on a Parser *)

InitDeclare ==
    /\ scopes = [id \in {"root"} |-> NewSubcommand("root")]
    /\ parser = NewParser
    /\ pc = "declaring"
    /\ args = <<>>
    /\ stack = <<>>
    /\ ret = None
    /\ result = None
    /\ outcome = None
    /\ last = NoEvent
    /\ vlog = <<>>
    /\ tflag = DescIdle
    /\ tpos = DescIdle
    /\ tres = None
    /\ prior = None

DeclareEvent(kind, scope) == [NoEvent EXCEPT !.kind = kind, !.scope = scope, !.name = s_num]

\* root.add_flag<T>("num", ...)
DeclareFlag ==
    /\ pc = "declaring"
    /\ \E T \in Types :
          scopes' = [scopes EXCEPT !["root"] = add_flag(scopes["root"], NewTypedFlag(T, s_num))]
    /\ last' = DeclareEvent("add_flag", "root")
    /\ UNCHANGED <<args, stack, ret, pc, result, outcome, vlog, parser, tflag, tpos, tres, prior>>

\* a setter called on the TypedFlag& of the flag now registered under "num"
ConfigureFlag ==
    /\ pc = "declaring"
    /\ s_num \in DOMAIN scopes["root"].flags
    /\ LET f == scopes["root"].flags[s_num] IN
       \E g \in {set_short_name(f, s_v), set_required(f, TRUE),
                 set_default_value(f, DefaultOf(f.type)), set_choices(f, ChoicesOf(f.type))} :
          /\ g /= f
          /\ scopes' = [scopes EXCEPT !["root"].flags[s_num] = g]
    /\ last' = DeclareEvent("setter", "root")
    /\ UNCHANGED <<args, stack, ret, pc, result, outcome, vlog, parser, tflag, tpos, tres, prior>>

\* parser.add_flag("num", ...)
ParserDeclareFlag ==
    /\ pc = "declaring"
    /\ parser' = parser_add_flag(parser, s_num)
    /\ last' = DeclareEvent("add_flag", "parser")
    /\ UNCHANGED <<scopes, args, stack, ret, pc, result, outcome, vlog, tflag, tpos, tres, prior>>

\* a setter of the FlagBuilder of "num"
ParserConfigureFlag ==
    /\ pc = "declaring"
    /\ s_num \in DOMAIN parser.flags
    /\ \E q \in {fb_short_name(parser, s_num, s_v), fb_required(parser, s_num, TRUE),
                 fb_default_value(parser, s_num, s_4), fb_choices(parser, s_num, <<s_4, t_7>>)} :
          /\ q /= parser
          /\ parser' = q
    /\ last' = DeclareEvent("setter", "parser")
    /\ UNCHANGED <<scopes, args, stack, ret, pc, result, outcome, vlog, tflag, tpos, tres, prior>>

NextDeclare ==
    \/ DeclareFlag
    \/ ConfigureFlag
    \/ ParserDeclareFlag
    \/ ParserConfigureFlag

SpecDeclare == InitDeclare /\ [][NextDeclare]_vars

\* C22, as stated: an add_flag of a long name that is already declared leaves
\* the flag registered under that name as it was: type, short name,
\* requiredness, default, choice set and current value
C22_SecondDeclaration ==
    [][/\ (last'.kind = "add_flag" /\ last'.scope = "root"
           /\ s_num \in DOMAIN scopes["root"].flags) =>
              scopes'["root"].flags[s_num] = scopes["root"].flags[s_num]
       /\ (last'.kind = "add_flag" /\ last'.scope = "parser"
           /\ s_num \in DOMAIN parser.flags) =>
              parser'.flags[s_num] = parser.flags[s_num]]_vars

----------------------------------------------------------------------------
(* The order of the positionals *)

\* how many positionals of the scope have a value
Filled(sc) == Cardinality({j \in 1..Len(sc.positionals) : HasValue(sc.positionals[j].value)})

\* C23: the positionals of a scope are filled in declaration order: a token
\* classified as positional, when k positionals are filled, sets the positional
\* declared at place k + 1 to that token and changes no other; a step of any
\* other kind changes no positional; so a positional never has a value while
\* one declared before it has none
C23_PositionalOrder ==
    [][(Running /\ HasArg) =>
          LET sc == Cur
              sc2 == scopes'[Top.scope]
              k == Filled(Cur)
          IN  /\ IF last'.kind = "positional" /\ k < Len(sc.positionals)
                 THEN /\ \A j \in 1..Len(sc.positionals) :
                            j /= k + 1 => sc2.positionals[j] = sc.positionals[j]
                      /\ ret' = None =>
                            sc2.positionals[k + 1].value =
                                Some(FromString(sc.positionals[k + 1].type, CurArg).value)
                 ELSE sc2.positionals = sc.positionals
              /\ \A j \in 1..Len(sc2.positionals) :
                    HasValue(sc2.positionals[j].value) =>
                        \A h \in 1..(j - 1) : HasValue(sc2.positionals[h].value)]_vars

\* C23 witness: f -v 7 against two positionals and the boolean -v: the first
\* positional holds f, the second 7, the flag between them is set
C23_Witness ==
    /\ pc = "done"
    /\ args = <<t_f, t_v, t_7>>
    /\ Len(scopes["root"].positionals) = 2
    /\ scopes["root"].positionals[1].value = Some(t_f)
    /\ scopes["root"].positionals[2].value = Some(7)
    /\ scopes["root"].flags[s_vb].value = Some(TRUE)

----------------------------------------------------------------------------
(* The help and the version flag of Parser *)

s_version == <<"v", "e", "r", "s", "i", "o", "n">>
s_V == <<"V">>
t_h == <<"-", "h">>
t_V == <<"-", "V">>

\* Parser::add_help_flag: flags_["help"] is replaced by a flag whose action
\* prints the help and calls std::exit(0)
parser_add_help_flag(p) ==
    [p EXCEPT !.flags = MapPut(p.flags, s_help,
                               [NewFlag(s_help) EXCEPT !.short_name = s_h, !.action = "exit"]),
              !.short_to_long = MapPut(p.short_to_long, s_h, s_help)]

\* Parser::add_version_flag: the same with "version" and "V"
parser_add_version_flag(p) ==
    [p EXCEPT !.flags = MapPut(p.flags, s_version,
                               [NewFlag(s_version) EXCEPT !.short_name = s_V, !.action = "exit"]),
              !.short_to_long = MapPut(p.short_to_long, s_V, s_version)]

ExitTokens == {t_help, t_h, t_V, t_v, t_f, s_dashdash}
ExitArgLists == SeqsUpTo(ExitTokens, MaxArgs)

\* a Parser with --vb/-v, --num and one positional, to which the caller may
\* add the help flag, the version flag or both
InitExit ==
    /\ \E help \in BOOLEAN, version \in BOOLEAN :
        LET p0 == ParserSchema(FALSE, FALSE, 1, FALSE)
            p1 == IF help THEN parser_add_help_flag(p0) ELSE p0
        IN  parser = IF version THEN parser_add_version_flag(p1) ELSE p1
    /\ args \in ExitArgLists
    /\ scopes = <<>>
    /\ stack = <<>>
    /\ ret = None
    /\ pc = "idle"
    /\ result = None
    /\ outcome = None
    /\ last = NoEvent
    /\ vlog = <<>>
    /\ tflag = DescIdle
    /\ tpos = DescIdle
    /\ tres = None
    /\ prior = None

SpecExit == InitExit /\ [][NextParser]_vars

\* C24: the library never ends the process during a parse: whatever the schema
\* (the help and the version flag included) and the argument list, the parse
\* returns a result, so no parse is ever left by std::exit
C24_ParseReturnsResult == parser.pc /= "exited"

----------------------------------------------------------------------------
(* The empty token *)

\* the innermost activation is at an empty token and has not seen "--"
AtEmptyTokenInNormal ==
    /\ Running /\ HasArg
    /\ CurArg = t_empty
    /\ ~Top.after_double_dash

\* C30, as stated: in NORMAL state an empty token is neither a positional nor a
\* subcommand name, it is handled as a flag token (an unknown flag, there being
\* no flag of that name)
C30_EmptyTokenIsFlagToken ==
    [][AtEmptyTokenInNormal => last'.kind \in {"flag", "unknown_flag"}]_vars

\* C30, amended: in NORMAL state an empty token is neither a subcommand name
\* nor a flag token, it is handled as a positional token: it is converted into
\* the next positional in declaration order, or, no positional being left, the
\* scope returns the index of the token to its caller; no flag and no
\* subcommand selection changes
C30_EmptyTokenIsPositional ==
    [][AtEmptyTokenInNormal =>
          LET sc == Cur
              sc2 == scopes'[Top.scope]
              k == Top.pos_index
          IN  /\ last'.kind = "positional"
              /\ sc2.flags = sc.flags
              /\ sc2.selected_subcommand = sc.selected_subcommand
              /\ Len(stack') = Len(stack)
              /\ IF k < Len(sc.positionals)
                 THEN LET conv == FromString(sc.positionals[k + 1].type, t_empty)
                      IN  IF conv.ok
                          THEN ret' /= None \/ sc2.positionals[k + 1].value = Some(conv.value)
                          ELSE ret' = Some(Err(conv.error))
                 ELSE /\ ret' = Some(Ok(Top.i))
                      /\ sc2 = sc]_vars

\* C30 witness: the parse of the one empty token has ended and the first
\* positional of the root holds the empty text
C30_Witness ==
    /\ pc = "done"
    /\ args = <<t_empty>>
    /\ Len(scopes["root"].positionals) >= 1
    /\ scopes["root"].positionals[1].value = Some(t_empty)
    /\ last.kind /= "none"

----------------------------------------------------------------------------
(* The converters and the text of a stored value *)

\* std::to_string(int) for n <= 0 without its sign: the decimal digits of -n
RECURSIVE NegToString(_)
NegToString(n) ==
    IF n > -10 THEN <<Digits[1 - n]>>
    ELSE LET d == (10 - (n % 10)) % 10
         IN  Append(NegToString((n + d) \div 10), Digits[d + 1])

\* std::to_string(int)
IntToString(n) == IF n < 0 THEN <<"-">> \o NegToString(n) ELSE NegToString(0 - n)

\* Variant of GetValueAsString: the boolean held is tested, not the optional
GetValueAsStringOfValue(d) ==
    IF HasValue(d.value)
    THEN IF d.type = "string" THEN d.value
         ELSE IF d.type = "bool" THEN Some(IF ValueOf(d.value) THEN s_true ELSE s_false)
         ELSE Some(IntToString(ValueOf(d.value)))
    ELSE None

\* FlagStorage::get_value_as_string and PositionalStorage::get_value_as_string
\* as add_flag<T> and add_positional<T> define them.  For bool the condition of
\* "value() ? "true" : "false"" is the std::optional<bool> that value() returns,
\* which is engaged here, whatever it holds
GetValueAsString(d) ==
    IF HasValue(d.value)
    THEN IF d.type = "string" THEN d.value
         ELSE IF d.type = "bool" THEN Some(IF HasValue(d.value) THEN s_true ELSE s_false)
         ELSE Some(IntToString(ValueOf(d.value)))
    ELSE None

s_True == <<"T", "r", "u", "e">>
s_OFF == <<"O", "F", "F">>
t_42abc == <<"4", "2", "a", "b", "c">>
t_sp42 == <<" ", "4", "2">>
t_42sp == <<"4", "2", " ">>
t_plus7 == <<"+", "7">>
t_intmax == <<"2", "1", "4", "7", "4", "8", "3", "6", "4", "7">>
t_intmax1 == <<"2", "1", "4", "7", "4", "8", "3", "6", "4", "8">>
t_intmin == <<"-", "2", "1", "4", "7", "4", "8", "3", "6", "4", "8">>
t_intmin1 == <<"-", "2", "1", "4", "7", "4", "8", "3", "6", "4", "9">>

ConvTokens ==
    {s_true, s_false, s_1, s_0, s_yes, s_no, s_on, s_off, s_True, s_OFF, t_empty, t_f,
     t_7, t_40, t_m3, s_dash, t_42abc, t_sp42, t_42sp, t_plus7, t_big, t_intmax, t_intmax1,
     t_intmin, t_intmin1}

ConvIdle == [str |-> <<>>, conv |-> None, text |-> None, ptext |-> None, back |-> None,
             pback |-> None]

\* a flag and a positional of value type T as add_flag<T> and add_positional<T>
\* make them; no token has been converted
InitConv ==
    /\ \E T \in Types :
          /\ tflag = NewTypedFlag(T, s_num)
          /\ tpos = NewTypedPositional(T, s_p1, FALSE)
    /\ tres = ConvIdle
    /\ pc = "idle"
    /\ prior = None
    /\ parser = ParserIdle
    /\ args = <<>>
    /\ scopes = <<>>
    /\ stack = <<>>
    /\ ret = None
    /\ result = None
    /\ outcome = None
    /\ last = NoEvent
    /\ vlog = <<>>

\* ValueConverter<T>::from_string(str)
ConvFromString ==
    /\ pc = "idle"
    /\ \E str \in ConvTokens :
          tres' = [tres EXCEPT !.str = str, !.conv = Some(FromString(tflag.type, str))]
    /\ pc' = "converted"
    /\ UNCHANGED <<scopes, args, stack, ret, result, outcome, last, vlog, parser, tflag, tpos,
                   prior>>

\* storage.set_value(str) of the flag and of the positional
ConvSetValue ==
    /\ pc = "converted"
    /\ tflag' = FlagSetValueFromString(tflag, tres.str).flag
    /\ tpos' = PosSetValueFromString(tpos, tres.str).pos
    /\ pc' = "stored"
    /\ UNCHANGED <<scopes, args, stack, ret, result, outcome, last, vlog, parser, tres, prior>>

\* storage.get_value_as_string() of the flag and of the positional
ConvGetValueAsString ==
    /\ pc = "stored"
    /\ tres' = [tres EXCEPT !.text = GetValueAsString(tflag), !.ptext = GetValueAsString(tpos)]
    /\ pc' = "formatted"
    /\ UNCHANGED <<scopes, args, stack, ret, result, outcome, last, vlog, parser, tflag, tpos,
                   prior>>

\* ValueConverter<T>::from_string of the two texts
ConvBack ==
    /\ pc = "formatted"
    /\ HasValue(tres.text) /\ HasValue(tres.ptext)
    /\ tres' = [tres EXCEPT !.back = Some(FromString(tflag.type, ValueOf(tres.text))),
                            !.pback = Some(FromString(tpos.type, ValueOf(tres.ptext)))]
    /\ pc' = "done"
    /\ UNCHANGED <<scopes, args, stack, ret, result, outcome, last, vlog, parser, tflag, tpos,
                   prior>>

NextConv ==
    \/ ConvFromString
    \/ ConvSetValue
    \/ ConvGetValueAsString
    \/ ConvBack

SpecConv == InitConv /\ [][NextConv]_vars

Converted(T) == tflag.type = T /\ HasValue(tres.conv)
Conv == ValueOf(tres.conv)

FailsWith(r, code) == ~r.ok /\ r.error.code = code

\* C26: the boolean converter accepts exactly eight tokens, compared case by
\* case: true, 1, yes, on give true; false, 0, no, off give false; every other
\* token, the empty one and True among them, fails with InvalidFlagValue
C26_BoolConverter ==
    Converted("bool") =>
        /\ tres.str \in {s_true, s_1, s_yes, s_on} => Conv = Ok(TRUE)
        /\ tres.str \in {s_false, s_0, s_no, s_off} => Conv = Ok(FALSE)
        /\ tres.str \notin EightLiterals => FailsWith(Conv, "InvalidFlagValue")
        /\ Conv.ok <=> tres.str \in EightLiterals

\* C26 witness: True has been refused by the boolean converter
C26_Witness ==
    /\ Converted("bool")
    /\ tres.str = s_True
    /\ FailsWith(Conv, "InvalidFlagValue")

\* the whole token is an optional minus sign followed by one or more decimal digits
IsWholeInteger(str) ==
    LET body == IF str /= <<>> /\ str[1] = "-" THEN Tail(str) ELSE str
    IN  body /= <<>> /\ \A k \in 1..Len(body) : IsDigit(body[k])

\* the digits of the token, leading zeros apart, are too many or too large for int
MagnitudeOutOfRange(str) ==
    /\ IsWholeInteger(str)
    /\ AccumulateDigits(IF str[1] = "-" THEN Tail(str) ELSE str, 0) \in
          IF str[1] = "-" THEN {<<>>} ELSE {<<>>, <<INT_MIN>>}

\* C27: the integer converter succeeds only when the whole token is a
\* well-formed integer within the range of int; a
\* token with an integer prefix followed by other characters, a token with
\* whitespace around the digits and the empty token fail with InvalidFlagValue;
\* a magnitude out of range fails with InvalidFlagValue under a message that
\* differs from the one for malformed input
C27_IntConverter ==
    Converted("int") =>
        /\ Conv.ok <=> (IsWholeInteger(tres.str) /\ ~MagnitudeOutOfRange(tres.str))
        /\ ~IsWholeInteger(tres.str) =>
              /\ FailsWith(Conv, "InvalidFlagValue")
              /\ Conv.error.message = <<"Invalid integer format">>
        /\ MagnitudeOutOfRange(tres.str) =>
              /\ FailsWith(Conv, "InvalidFlagValue")
              /\ Conv.error.message /= <<"Invalid integer format">>

\* C28: round trip: for a text, an integer and a boolean flag or positional and
\* every token its converter accepts, the text get_value_as_string gives for
\* the stored value converts again to a value equal to the stored one; so a
\* boolean holding false has a text that converts to false
C28_RoundTrip ==
    (pc = "done" /\ Conv.ok) =>
        /\ tflag.value = Some(Conv.value)
        /\ tpos.value = Some(Conv.value)
        /\ ValueOf(tres.back) = Ok(ValueOf(tflag.value))
        /\ ValueOf(tres.pback) = Ok(ValueOf(tpos.value))

----------------------------------------------------------------------------
(* Result<T> and Result<void> *)

\* what a call gives back: a value, or the std::logic_error it throws
Returned(v) == [thrown |-> FALSE, ret |-> <<v>>]
ThrownLogicError == [thrown |-> TRUE, ret |-> <<>>]

\* Result::has_value, and operator bool
result_has_value(r) == r.ok

\* Result::error: throws when has_value_
result_error(r) == IF r.ok THEN ThrownLogicError ELSE Returned(r.error)

\* Result<T>::value: throws when !has_value_
result_value(r) == IF ~r.ok THEN ThrownLogicError ELSE Returned(r.value)

\* Variant of result_value_or: the default is given back in either state
result_value_or_default(r, default_value) == Returned(default_value)

\* Result<T>::value_or
result_value_or(r, default_value) ==
    IF r.ok THEN Returned(r.value) ELSE Returned(default_value)

ResultTypes == {"void", "int", "string", "bool"}
ResultPayloads(T) ==
    IF T = "int" THEN {0, 7, -3}
    ELSE IF T = "string" THEN {t_empty, t_f, t_7}
    ELSE IF T = "bool" THEN BOOLEAN
    ELSE {}
ResultErrors ==
    {unknown_flag(s_x), too_many_positionals, missing_flag_value(s_num),
     missing_required_flag(s_num)}

\* no Result has been constructed; T is the value type of the one to come
InitResult ==
    /\ \E T \in ResultTypes :
          tres = [type |-> T, made |-> "none", held |-> <<>>, obj |-> <<>>, op |-> "none",
                  arg |-> <<>>, out |-> <<>>]
    /\ pc = "idle"
    /\ tflag = DescIdle
    /\ tpos = DescIdle
    /\ prior = None
    /\ parser = ParserIdle
    /\ args = <<>>
    /\ scopes = <<>>
    /\ stack = <<>>
    /\ ret = None
    /\ result = None
    /\ outcome = None
    /\ last = NoEvent
    /\ vlog = <<>>

ResultUnchanged ==
    UNCHANGED <<scopes, args, stack, ret, result, outcome, last, vlog, parser, tflag, tpos, prior>>

\* Result<void>::ok()
ResultOkVoid ==
    /\ pc = "idle" /\ tres.type = "void"
    /\ tres' = [tres EXCEPT !.made = "ok", !.obj = OkVoid]
    /\ pc' = "built"
    /\ ResultUnchanged

\* Result<T>::ok(value)
ResultOk ==
    /\ pc = "idle" /\ tres.type /= "void"
    /\ \E v \in ResultPayloads(tres.type) :
          tres' = [tres EXCEPT !.made = "ok", !.held = <<v>>, !.obj = Ok(v)]
    /\ pc' = "built"
    /\ ResultUnchanged

\* Result::err(error)
ResultErr ==
    /\ pc = "idle"
    /\ \E e \in ResultErrors :
          tres' = [tres EXCEPT !.made = "err", !.held = <<e>>, !.obj = Err(e)]
    /\ pc' = "built"
    /\ ResultUnchanged

\* r.has_value()
ResultHasValueCall ==
    /\ pc = "built"
    /\ tres' = [tres EXCEPT !.op = "has_value", !.arg = <<>>,
                            !.out = Returned(result_has_value(tres.obj))]
    /\ pc' = pc
    /\ ResultUnchanged

\* r.value(); Result<void> has no value()
ResultValueCall ==
    /\ pc = "built" /\ tres.type /= "void"
    /\ tres' = [tres EXCEPT !.op = "value", !.arg = <<>>, !.out = result_value(tres.obj)]
    /\ pc' = pc
    /\ ResultUnchanged

\* r.error()
ResultErrorCall ==
    /\ pc = "built"
    /\ tres' = [tres EXCEPT !.op = "error", !.arg = <<>>, !.out = result_error(tres.obj)]
    /\ pc' = pc
    /\ ResultUnchanged

\* r.value_or(d); Result<void> has no value_or()
ResultValueOrCall ==
    /\ pc = "built" /\ tres.type /= "void"
    /\ \E d \in ResultPayloads(tres.type) :
          tres' = [tres EXCEPT !.op = "value_or", !.arg = <<d>>,
                               !.out = result_value_or(tres.obj, d)]
    /\ pc' = pc
    /\ ResultUnchanged

NextResult ==
    \/ ResultOkVoid
    \/ ResultOk
    \/ ResultErr
    \/ ResultHasValueCall
    \/ ResultValueCall
    \/ ResultErrorCall
    \/ ResultValueOrCall

SpecResult == InitResult /\ [][NextResult]_vars

\* C25: a Result is in one of two states, fixed when it is made: ok() and ok(v)
\* give has_value true, err(e) gives has_value false, and no accessor changes
\* that; value() gives the value in the ok state and throws in the error state;
\* error() gives the error in the error state and throws in the ok state;
\* value_or(d) gives the held value in the ok state and d in the error state
C25_ResultStates ==
    pc = "built" =>
        /\ tres.made \in {"ok", "err"}
        /\ result_has_value(tres.obj) <=> tres.made = "ok"
        /\ tres.op = "has_value" => tres.out = Returned(tres.made = "ok")
        /\ tres.op = "value" =>
              tres.out = IF tres.made = "ok" THEN Returned(tres.held[1]) ELSE ThrownLogicError
        /\ tres.op = "error" =>
              tres.out = IF tres.made = "err" THEN Returned(tres.held[1]) ELSE ThrownLogicError
        /\ tres.op = "value_or" =>
              tres.out = Returned(IF tres.made = "ok" THEN tres.held[1] ELSE tres.arg[1])

\* C25 witness: value_or(7) on ok(-3) has given -3
C25_Witness ==
    /\ pc = "built"
    /\ tres.type = "int"
    /\ tres.made = "ok" /\ tres.held = <<-3>>
    /\ tres.op = "value_or" /\ tres.arg = <<7>>
    /\ tres.out = Returned(-3)

----------------------------------------------------------------------------
(* Termination of Subcommand::parse_args *)

\* a measure of what is left of a parse: it falls with the distance of the
\* innermost activation's index from the end while a loop runs, and with the
\* number of activations once one of them has returned
Rank ==
    IF pc = "idle" THEN 2 * Len(args) + 5
    ELSE IF pc = "parsing" /\ ret = None THEN 2 * Len(args) + 4 - Top.i
    ELSE IF pc = "parsing" THEN 1 + Len(stack)
    ELSE IF pc = "returned" THEN 1
    ELSE 0

\* C31: parse_args terminates on every token sequence and every subcommand
\* tree: every step lowers Rank, which is never negative; an iteration of the
\* loop either returns or leaves the innermost activation (the same one, or the
\* one of a recursive call) at a strictly larger index, so no index is the
\* current token of two iterations; a recursive call starts past its caller's
\* current index; once an activation has returned no loop runs again
C31_Termination ==
    [][/\ Rank' < Rank
       /\ Rank' >= 0
       /\ (Running /\ HasArg) =>
             \/ ret' /= None /\ Len(stack') = Len(stack)
             \/ /\ ret' = None
                /\ Len(stack') \in {Len(stack), Len(stack) + 1}
                /\ stack'[Len(stack')].i > Top.i
                /\ Len(stack') > Len(stack) => stack'[Len(stack)].i = Top.i
       /\ (pc = "parsing" /\ ret /= None) => (ret' /= None \/ pc' /= "parsing")]_vars

\* C31 witness: a parse of as many tokens as the bound allows, with a recursive
\* call into run, has ended having consumed every token
C31_Witness ==
    /\ pc = "done"
    /\ Len(args) = MaxArgs
    /\ args[2] = s_run
    /\ scopes["root"].selected_subcommand = Some(s_run)
    /\ ValueOf(result) = Ok(Len(args))

----------------------------------------------------------------------------
(* A flag given several times *)

t_num_40 == <<"-", "-", "n", "u", "m", "=", "4", "0">>

RepeatTokens == {t_v, t_vb_no, t_num, t_num_7, t_num_40, t_7, t_o, t_o_ab, t_o_e, s_no, t_zz}
RepeatArgLists == SeqsUpTo(RepeatTokens, MaxArgs)

\* the flags of EqRootSchema and no positional
RepeatFlagsSchema ==
    LET vb == set_short_name(NewTypedFlag("bool", s_vb), s_v)
        num == NewTypedFlag("int", s_num)
        o == NewTypedFlag("string", s_o)
    IN  add_flag(add_flag(add_flag(NewSubcommand("root"), vb), num), o)

\* the Subcommand with --vb/-v (bool), --num (int), --o (string), with or
\* without the positional, is about to parse the argument list
InitRepeat ==
    /\ args \in RepeatArgLists
    /\ \E schema \in {EqRootSchema, RepeatFlagsSchema} : scopes = [id \in {"root"} |-> schema]
    /\ pc = "idle"
    /\ parser = ParserIdle
    /\ stack = <<>>
    /\ ret = None
    /\ result = None
    /\ outcome = None
    /\ last = NoEvent
    /\ vlog = <<>>
    /\ tflag = DescIdle
    /\ tpos = DescIdle
    /\ tres = None
    /\ prior = None

\* the schema has no subcommand and no token is "--"
NextRepeat ==
    \/ ParseArgsCall
    \/ PositionalStep
    \/ FlagStep
    \/ LoopExit
    \/ ParseArgsReturn
    \/ ValidateStep

SpecRepeat == InitRepeat /\ [][NextRepeat]_vars

\* the places of the argument list that name the flag f
Occurrences(f) == {k \in 1..Len(args) : Mentions(args[k], f)}

\* the text the occurrence of f at place k gives it: the text after the first
\* "=", or the following token when that is a value for f, or true for a
\* boolean flag; <<"?">> stands for no text at all
OccurrenceText(f, k) ==
    IF StartsWith(args[k], s_dashdash) /\ Find(args[k], "=") /= -1
    THEN Some(Substr(args[k], Find(args[k], "=") + 1))
    ELSE IF /\ k < Len(args)
            /\ ~StartsWith(args[k + 1], s_dash)
            /\ (f.type /= "bool" \/ args[k + 1] \in EightLiterals)
    THEN Some(args[k + 1])
    ELSE IF f.type = "bool" THEN Some(s_true)
    ELSE None

\* place k is a valid occurrence of a declared flag
ValidOccurrence(k) ==
    \E n \in DOMAIN EqRootSchema.flags :
        LET f == EqRootSchema.flags[n] IN
        /\ Mentions(args[k], f)
        /\ HasValue(OccurrenceText(f, k))
        /\ FromString(f.type, ValueOf(OccurrenceText(f, k))).ok

\* place k is the token the occurrence before it takes as its value
TakenByOccurrence(k) ==
    /\ k > 1
    /\ ValidOccurrence(k - 1)
    /\ ~(StartsWith(args[k - 1], s_dashdash) /\ Find(args[k - 1], "=") /= -1)
    /\ \E n \in DOMAIN EqRootSchema.flags :
          /\ Mentions(args[k - 1], EqRootSchema.flags[n])
          /\ OccurrenceText(EqRootSchema.flags[n], k - 1) = Some(args[k])
          /\ ~StartsWith(args[k], s_dash)

\* C32: when a flag occurs several times in the argument list, through its long
\* form, its short form or both, and every occurrence is valid, the parse
\* succeeds; after a successful parse the flag is as declared but for its value,
\* which is the value of its last occurrence
C32_LastOccurrenceWins ==
    pc = "done" =>
        /\ (\A k \in 1..Len(args) : ValidOccurrence(k) \/ TakenByOccurrence(k))
              => ValueOf(outcome).ok
        /\ ValueOf(outcome).ok =>
              \A n \in DOMAIN EqRootSchema.flags :
                 LET f == EqRootSchema.flags[n]
                     occ == Occurrences(f)
                     k == CHOOSE j \in occ : \A h \in occ : h <= j
                 IN  Cardinality(occ) >= 2 =>
                        scopes["root"].flags[n] =
                           [f EXCEPT !.value =
                               Some(FromString(f.type, ValueOf(OccurrenceText(f, k))).value)]

\* C32 witness: -v --vb=no -v: the boolean flag given three times through both
\* forms ends true, having been false in between
C32_Witness ==
    /\ pc = "done"
    /\ args = <<t_v, t_vb_no, t_v>>
    /\ ValueOf(outcome).ok
    /\ scopes["root"].flags[s_vb].value = Some(TRUE)

----------------------------------------------------------------------------
(* The value a descriptor holds after a failed validation *)

\* the last call was set_value_from_string on the flag (target "flag") or on
\* the positional (target "positional") and failed with a validation error
LastSetFailedValidation(target) ==
    /\ tres.n > 0
    /\ tres.target = target
    /\ ~tres.res.ok
    /\ tres.res.error.code = "ValidationFailed"

\* C33, as stated: when set_value_from_string fails with a validation error the
\* descriptor's current value is the one it had before the call, so a flag with
\* a non-empty choice set never holds a value outside that set
C33_FailedValidationKeepsValue ==
    /\ LastSetFailedValidation("flag") =>
          /\ tflag.value = tres.before.value
          /\ (tflag.choices /= <<>> /\ HasValue(tflag.value)) => InChoices(tflag)
    /\ LastSetFailedValidation("positional") => tpos.value = tres.before.value

\* C33, amended: when set_value_from_string fails with a validation error the
\* descriptor's current value is the rejected value, the converted token,
\* whatever it held before, and nothing else of the descriptor has changed; a
\* flag rejected by its choice set holds a value outside that set
C33_FailedValidationStoresValue ==
    /\ LastSetFailedValidation("flag") =>
          /\ tflag = [tres.before EXCEPT
                         !.value = Some(FromString(tres.before.type, tres.str).value)]
          /\ (tflag.choices /= <<>> /\ tres.calls = <<>>) => ~InChoices(tflag)
    /\ LastSetFailedValidation("positional") =>
          tpos = [tres.before EXCEPT
                     !.value = Some(FromString(tres.before.type, tres.str).value)]

\* C33 witness: the flag with the choices 7 and 40 and the default 4 has been
\* given 5, the call has failed, and the flag holds 5
C33_Witness ==
    /\ LastSetFailedValidation("flag")
    /\ tflag.type = "int"
    /\ tflag.choices = <<7, 40>>
    /\ tres.str = t_5
    /\ tres.before.value = Some(4)
    /\ tflag.value = Some(5)

----------------------------------------------------------------------------
(* Boolean flags and the converter *)

\* C34: a declared boolean flag given without inline value never makes
\* parse_args fail with InvalidFlagValue or MissingFlagValue: the following
\* token is taken as its value exactly when it does not start with "-" and the
\* boolean converter accepts it, the flag then holds what the converter gives;
\* with no token taken the flag holds true
C34_BooleanFlagNeverFails ==
    (LastIsPlainFlag /\ LastFlag.type = "bool") =>
        /\ ~LastFailedWith("InvalidFlagValue")
        /\ ~LastFailedWith("MissingFlagValue")
        /\ last.consumed <=>
              /\ LastHasBareFollower
              /\ BoolFromString(args[last.index + 2]).ok
        /\ LastFlag.value = Some(IF last.consumed
                                 THEN BoolFromString(args[last.index + 2]).value
                                 ELSE TRUE)

\* C34 witness: -v no: the boolean flag has taken no as its value and holds false
C34_Witness ==
    /\ LastIsPlainFlag /\ LastFlag.type = "bool"
    /\ args[last.index + 1] = t_v
    /\ last.consumed
    /\ args[last.index + 2] = s_no
    /\ LastFlag.value = Some(FALSE)
    /\ LastResult = None

----------------------------------------------------------------------------
(* A Subcommand with two children, parsed once or twice *)

\* length of the first argument list, and of the second
MaxFamilyArgs == 2
MaxSecondArgs == 1

FamilyTokens == {s_run, s_now, t_help, t_h, t_num, t_7, s_dashdash}
FamilyArgLists == SeqsUpTo(FamilyTokens, MaxFamilyArgs)
SecondArgLists == SeqsUpTo(FamilyTokens, MaxSecondArgs)

FamilyScopeIds == {"root", "run", "now"}

\* root: --help/-h, one positional, the subcommands run and now
FamilyRootSchema ==
    add_subcommand(
        add_subcommand(
            add_positional(add_help_flag(NewSubcommand("root")),
                           NewTypedPositional("string", s_p1, FALSE)),
            s_run, "run"),
        s_now, "now")

\* run declares no flag named help and may be a fallthrough scope; now declares
\* --help/-h
InitFamily ==
    /\ \E fallthrough \in BOOLEAN :
          scopes = [id \in FamilyScopeIds |->
                      IF id = "root" THEN FamilyRootSchema
                      ELSE IF id = "run" THEN RunSchema(fallthrough)
                      ELSE NowSchema(FALSE, TRUE, FALSE)]
    /\ args \in FamilyArgLists
    /\ stack = <<>>
    /\ ret = None
    /\ pc = "idle"
    /\ result = None
    /\ outcome = None
    /\ last = NoEvent
    /\ vlog = <<>>
    /\ parser = ParserIdle
    /\ tflag = DescIdle
    /\ tpos = DescIdle
    /\ tres = None
    /\ prior = None

\* parse_args(args, 0) is called on the root a second time, with another list
FamilyReparseCall ==
    /\ pc = "done"
    /\ prior = None
    /\ prior' = Some(scopes)
    /\ args' \in SecondArgLists
    /\ scopes' = [scopes EXCEPT !["root"].short_to_long = RebuildShortToLong(scopes["root"])]
    /\ stack' = <<NewFrame("root", 0)>>
    /\ pc' = "parsing"
    /\ result' = None
    /\ outcome' = None
    /\ last' = NoEvent
    /\ UNCHANGED <<ret, vlog, parser, tflag, tpos, tres>>

NextFamily ==
    \/ ParseArgsCall
    \/ DoubleDashStep
    \/ SubcommandStep
    \/ PositionalStep
    \/ FlagStep
    \/ LoopExit
    \/ SubcommandReturn
    \/ ParseArgsReturn
    \/ ValidateStep
    \/ FamilyReparseCall

SpecFamily == InitFamily /\ [][NextFamily]_vars

\* the children of the root that have parsed = true
ParsedChildren ==
    {n \in DOMAIN scopes["root"].subcommands : scopes[scopes["root"].subcommands[n]].parsed}

C37_HelpRequestedOnlyWhenDeclared ==
    [][\A id \in FamilyScopeIds :
          (~scopes[id].help_requested /\ scopes'[id].help_requested) =>
              \/ /\ Running /\ HasArg
                 /\ Top.scope = id
                 /\ ~Top.after_double_dash
                 /\ last'.kind = "flag"
                 /\ last'.name = s_help
                 /\ s_help \in DOMAIN scopes[id].flags
              \/ /\ pc = "parsing" /\ HasValue(ret) /\ ValueOf(ret).ok
                 /\ Len(stack) >= 2
                 /\ stack[Len(stack) - 1].scope = id
                 /\ last'.kind = "return"
                 /\ scopes[Top.scope].help_requested
                 /\ HasValue(scopes[id].selected_subcommand)
                 /\ scopes[id].subcommands[ValueOf(scopes[id].selected_subcommand)] = Top.scope]_vars

----------------------------------------------------------------------------
(* The index parse_args returns *)

\* the start_index of the k-th activation on the stack
StartIndex(k) == IF k = 1 THEN 0 ELSE stack[k - 1].i + 1

\* C36: on success parse_args returns an index r, start_index <= r <= number of
\* tokens; an activation that returns r below the number of tokens returns the
\* index of its current token, which is a positional-shaped token met with no
\* positional slot left or a flag token unknown to this fallthrough scope;
\* otherwise it returns at the end of the loop, every token consumed; and a
\* scope whose selected child returned r returns the same r
C36_ReturnedIndex ==
    [][/\ (Running /\ HasValue(ret') /\ ValueOf(ret').ok) =>
             LET r == ValueOf(ret').value IN
             /\ StartIndex(Len(stack)) <= r /\ r <= Len(args)
             /\ r < Len(args) =>
                   /\ r = Top.i
                   /\ \/ /\ last'.kind = "positional"
                         /\ IsPositionalToken(Top.after_double_dash, CurArg)
                         /\ Top.pos_index >= Len(Cur.positionals)
                      \/ /\ last'.kind = "unknown_flag"
                         /\ StartsWith(CurArg, s_dash)
                         /\ Cur.fallthrough
             /\ r = Len(args) => (last'.kind = "end" /\ Top.i = Len(args))
       /\ (pc = "parsing" /\ HasValue(ret) /\ ValueOf(ret).ok /\ Len(stack) >= 2) =>
             /\ ret' = ret
             /\ StartIndex(Len(stack) - 1) < ValueOf(ret).value]_vars

\* C36 witness: run -x f with run a fallthrough scope that knows no -x: the
\* parse has succeeded with the index of -x, and f has not been read
C36_Witness ==
    /\ pc = "done"
    /\ args = <<s_run, t_x, t_f>>
    /\ scopes["run"].fallthrough
    /\ result = Some(Ok(1))
    /\ ~HasValue(scopes["run"].positionals[1].value)

----------------------------------------------------------------------------
(* The positionals and the flag values of the string-based Parser *)

\* Parser::get_positional(size_t index)
parser_get_positional(p, index) ==
    IF index < Len(p.positionals) /\ p.positionals[index + 1].value /= <<>>
    THEN Some(p.positionals[index + 1].value)
    ELSE None

\* C38: a positional to which Parser::parse assigned a token is never reported
\* as missing, and get_positional returns that token, whatever its text, the
\* empty text included
C38_AssignedPositionalIsPresent ==
    (parser.pc = "done" /\ HasValue(parser.result)) =>
        \A k \in 1..parser.pos_index :
            /\ ValueOf(parser.result) /=
                  ParseErr(<<"Required positional missing: ", parser.positionals[k].name>>)
            /\ \E j \in 1..Len(args) : args[j] = parser.positionals[k].value
            /\ parser_get_positional(parser, k - 1) = Some(parser.positionals[k].value)

ChoiceTokens == {t_num, t_num_7, t_num_40, t_7, t_40, t_f, s_dashdash}
ChoiceArgLists == SeqsUpTo(ChoiceTokens, MaxArgs)

\* a Parser with the flag --num, given the choices 7 and 40, the validator
\* one_char, both or neither, and one positional
InitChoice ==
    /\ \E with_choices \in BOOLEAN, with_validator \in BOOLEAN :
          LET p0 == parser_add_flag(NewParser, s_num)
              p1 == IF with_choices THEN fb_choices(p0, s_num, <<t_7, t_40>>) ELSE p0
              p2 == IF with_validator THEN fb_validator(p1, s_num, "one_char") ELSE p1
          IN  parser = parser_add_positional(p2, s_p1, FALSE)
    /\ args \in ChoiceArgLists
    /\ scopes = <<>>
    /\ stack = <<>>
    /\ ret = None
    /\ pc = "idle"
    /\ result = None
    /\ outcome = None
    /\ last = NoEvent
    /\ vlog = <<>>
    /\ tflag = DescIdle
    /\ tpos = DescIdle
    /\ tres = None
    /\ prior = None

SpecChoice == InitChoice /\ [][NextParser]_vars

\* C39: Flag::validate accepts a value only if it passes every configured
\* check: as long as Parser::parse has not failed, every flag it has set holds
\* a member of its choice set, when it has one, and a value its validator
\* returns true for, when it has one
C39_EveryConfiguredCheck ==
    (parser.pc \in {"scan", "done"} /\ (HasValue(parser.result) => ValueOf(parser.result).success)) =>
        \A n \in DOMAIN parser.flags :
            LET f == parser.flags[n] IN
            f.has_value =>
                /\ f.choices /= <<>> => \E k \in 1..Len(f.choices) : f.choices[k] = f.value
                /\ f.validator /= "none" => RunStringValidator(f.validator, f.value)

====
